---- MODULE Spec2Model ----
(***************************************************************************)
(* Verification model of the emotion pipeline of the repository:          *)
(*   - EmotionMonitor component (src/app/components/EmotionMonitor.tsx):  *)
(*     connection state, acquisition and classification intervals, the    *)
(*     rolling sample buffer and the label published to Home.             *)
(*   - useEmotionClassifier hook (src/app/hooks/useEmotionClassifier.ts): *)
(*     training life cycle and classify.                                  *)
(*   - eegProcessor utilities (src/app/utils/llmService.ts, lines 138+):  *)
(*     extractFeatures and normalizeFeatures, in exact rational           *)
(*     arithmetic with the IEEE special values a division by zero yields. *)
(***************************************************************************)
EXTENDS Integers, Sequences, FiniteSets, TLC

\* ------------------------------------------------------------------------
\* Program constants
\* ------------------------------------------------------------------------

\* EMOTIONS array, in enumeration order.
EMOTIONS == <<"happy", "sad", "angry", "calm", "fear", "surprise", "neutral">>

EmotionSet == {EMOTIONS[i] : i \in 1..Len(EMOTIONS)}

\* dataBuffer keeps the last 100 samples.
BufferCap == 100

\* eegData (the displayed trace) keeps the last 10 samples.
DisplayCap == 10

\* Channel keys of a sample / feature vector.
Channels == {"eeg1", "eeg2", "eeg3", "eeg4", "eeg5", "eeg6", "eeg7", "eeg8"}

\* ------------------------------------------------------------------------
\* Bounds of the model
\* ------------------------------------------------------------------------

\* Total number of acquisition ticks explored (more than BufferCap, so that
\* eviction happens).
MaxAppends == 103

\* Scores a network output may take, in units of 1/2 (0, 0.5, 1).
ScoreLevels == {0, 1, 2}

\* Longest sample window passed to extractFeatures / classify.
MaxWindow == 3

\* Number of re-renders of the hook's component explored.
MaxRenders == 2

\* Samples of the windows: channel i of MkSample(a, b) reads a + b * (i - 1),
\* within the generator's range [-50, 50].
SampleBases == {-50, 0, 7}
SampleSteps == {0, 6}

\* Feature vectors passed to normalizeFeatures directly: channel i reads
\* (a + b * (i - 1)) / 2.
FeatureBases == {-6, -1, 0, 3}
FeatureSteps == {0, 1}

\* min / max arguments passed to normalizeFeatures directly.
BoundVals == -2..2

\* Longest tracks list a server other than the handler answers with.
MaxPayloadTracks == 6

\* Messages sent in one chat session.
MaxSends == 2

\* Emotions Home passes down to the music player in one session.
MaxEmotionChanges == 2

\* Math.random() returns one of 0/RandomSteps .. (RandomSteps-1)/RandomSteps.
RandomSteps == 4

VARIABLES
    \* ---- EmotionMonitor / Home ----
    mounted,            \* the mount effects have run
    isConnected,        \* useState isConnected (committed value)
    emotionClassifier,  \* useState emotionClassifier: "null" or "net"
    dataBuffer,         \* useRef dataBuffer.current: sequence of sample ids
    eegData,            \* useState eegData: displayed samples
    acqTimers,          \* active setInterval ids created by connectToUnicorn
    clsTimers,          \* active setInterval ids created by the classify effect
    unicornCleanup,     \* interval id held by the cleanup of the connect effect (0: none)
    classifierCleanup,  \* interval id held by the cleanup of the classify effect (0: none)
    currentEmotion,     \* Home.currentEmotion: "null" or a label
    homeEegData,        \* Home.eegData: id of the sample last passed up (0: null)
    monError,           \* useState error: "null" or a message
    appended,           \* number of samples appended so far (sample ids are 1..appended)
    cycle,              \* position of a running classifyEmotion call and what it has read
    published           \* onEmotionDetected has been called at least once

monitorVars == <<mounted, isConnected, emotionClassifier, dataBuffer, eegData,
                 acqTimers, clsTimers, unicornCleanup, classifierCleanup,
                 currentEmotion, homeEegData, monError, appended, cycle, published>>

VARIABLES
    \* ---- useEmotionClassifier ----
    initPc,             \* position of initClassifier: "idle", "awaiting", "resolved", "rejected"
    classifier,         \* useState classifier: "null" or "net"
    isTraining,         \* useState isTraining
    trainError,         \* useState trainError: "null" or a message
    isReady,            \* useState isReady
    trainStarts,        \* number of times initClassifier has been started
    renders,            \* number of re-renders of the hook's component
    lastClassify        \* the last classify call: arguments, hook state at the call, result

hookVars == <<initPc, classifier, isTraining, trainError, isReady, trainStarts,
              renders, lastClassify>>

VARIABLES
    \* ---- direct calls of the eegProcessor functions and of the label selection ----
    call,               \* the call: function name and arguments
    ret,                \* its outcome
    done                \* the call has returned

pureVars == <<call, ret, done>>

VARIABLES
    \* ---- ChatInterface ----
    chatMounted,        \* the welcome effect has run
    messages,           \* useState messages: the transcript, [sender, content]
    input,              \* useState input
    isLoading,          \* useState isLoading
    apiKey,             \* process.env.NEXT_PUBLIC_OPENROUTER_API_KEY || ''
    pending,            \* handleSendMessage calls suspended at their await
    sends,              \* number of handleSendMessage calls that passed the guard
    lastRequest,        \* the last body passed to axios.post, and where its text sits
    lastReply           \* the last resumed call: outcome, emotions, content shown

chatVars == <<chatMounted, messages, input, isLoading, apiKey, pending, sends,
              lastRequest, lastReply>>

VARIABLES
    \* ---- MusicPlayer ----
    musicMounted,       \* the mount effects have run
    isPlaying,          \* useState isPlaying
    currentTrack,       \* useState currentTrack (NoTrack: null)
    tracks,             \* useState tracks
    playerIsLoading,    \* useState isLoading of MusicPlayer
    progress,           \* useState progress, in steps of 0.5
    playerRef,          \* useRef playerRef.current: "null" or "player"
    progressInterval,   \* useRef progressInterval.current: an interval id (0: null)
    progTimers,         \* active progress intervals, each with the render its callback closes over
    pendingFetches,     \* fetchTracks calls suspended at searchYouTubeVideos
    pendingLoads,       \* loadAndPlayTrack calls suspended at loadYouTubePlayer
    emotionChanges,     \* number of emotions Home has passed down
    lastEvent           \* "advance" when the last step was a tick that found progress >= 100

musicVars == <<musicMounted, isPlaying, currentTrack, tracks, playerIsLoading, progress,
               playerRef, progressInterval, progTimers, pendingFetches, pendingLoads,
               emotionChanges, lastEvent>>

vars == <<monitorVars, hookVars, pureVars, chatVars, musicVars>>

\* ------------------------------------------------------------------------
\* Helpers
\* ------------------------------------------------------------------------

\* slice(0, n) in place of slice(-n): keeps the oldest n elements.
SliceLast_KeepsOldest(s, n) ==
    IF Len(s) <= n THEN s ELSE SubSeq(s, 1, n)

\* Array.prototype.slice(-n): the last n elements (all of them if fewer).
SliceLast(s, n) ==
    IF Len(s) <= n THEN s ELSE SubSeq(s, Len(s) - n + 1, Len(s))

\* A fresh interval id: the smallest id not in use.
FreshId(used) == CHOOSE i \in 1..(Cardinality(used) + 1) : i \notin used

\* clearInterval(id)
ClearInterval(timers, id) == timers \ {id}

\* Index of a channel key: "eeg3" is channel 3.
ChannelIndex(ch) ==
    CASE ch = "eeg1" -> 1 [] ch = "eeg2" -> 2 [] ch = "eeg3" -> 3 [] ch = "eeg4" -> 4
      [] ch = "eeg5" -> 5 [] ch = "eeg6" -> 6 [] ch = "eeg7" -> 7 [] ch = "eeg8" -> 8

\* ------------------------------------------------------------------------
\* JavaScript numbers: exact rationals n/d (d > 0, lowest terms) and the
\* special values NaN, +Infinity and -Infinity.
\* ------------------------------------------------------------------------

Abs(x) == IF x < 0 THEN -x ELSE x

RECURSIVE Gcd(_, _)
Gcd(a, b) == IF b = 0 THEN a ELSE Gcd(b, a % b)

Num(n, d) ==
    LET sn == IF d < 0 THEN -n ELSE n
        sd == Abs(d)
        g  == Gcd(Abs(sn), sd)
    IN  [k |-> "fin", n |-> sn \div g, d |-> sd \div g]

NumInt(x) == [k |-> "fin", n |-> x, d |-> 1]
NaN       == [k |-> "nan", n |-> 0, d |-> 1]
PosInf    == [k |-> "inf", n |-> 1, d |-> 1]
NegInf    == [k |-> "inf", n |-> -1, d |-> 1]

IsFinite(x) == x.k = "fin"

\* a + b and a - b on finite numbers, a / b on finite numbers with the
\* IEEE results of a division by zero.
NumAdd(a, b) == Num(a.n * b.d + b.n * a.d, a.d * b.d)
NumSub(a, b) == Num(a.n * b.d - b.n * a.d, a.d * b.d)
NumMul(a, b) == Num(a.n * b.n, a.d * b.d)
NumDiv(a, b) ==
    IF b.n = 0
    THEN IF a.n = 0 THEN NaN ELSE IF a.n > 0 THEN PosInf ELSE NegInf
    ELSE Num(a.n * b.d, a.d * b.n)

\* a <= b; false when either side is NaN.
NumLeq(a, b) ==
    IF a.k = "nan" \/ b.k = "nan" THEN FALSE
    ELSE IF a.k = "inf" THEN (a.n < 0) \/ (b.k = "inf" /\ b.n > 0)
    ELSE IF b.k = "inf" THEN b.n > 0
    ELSE a.n * b.d <= b.n * a.d

\* Math.min and Math.max: NaN when either argument is NaN.
MathMin(a, b) ==
    IF a.k = "nan" \/ b.k = "nan" THEN NaN ELSE IF NumLeq(a, b) THEN a ELSE b
MathMax(a, b) ==
    IF a.k = "nan" \/ b.k = "nan" THEN NaN ELSE IF NumLeq(a, b) THEN b ELSE a

\* ------------------------------------------------------------------------
\* eegProcessor: extractFeatures and normalizeFeatures
\* ------------------------------------------------------------------------

\* A function result: a returned value, or a thrown Error with its message.
Returned(v) == [threw |-> FALSE, message |-> "", value |-> v]
Thrown(msg) == [threw |-> TRUE, message |-> msg, value |-> <<>>]

\* features[ch] = ... in place of features[ch] += ...
RECURSIVE Accumulate_Assigns(_, _, _)
Accumulate_Assigns(samples, i, features) ==
    IF i > Len(samples) THEN features
    ELSE Accumulate_Assigns(samples, i + 1,
            [ch \in Channels |->
                NumDiv(NumInt(samples[i][ch]), NumInt(Len(samples)))])

\* The forEach of extractFeatures: features[ch] += sample[ch] / eegData.length
RECURSIVE Accumulate(_, _, _)
Accumulate(samples, i, features) ==
    IF i > Len(samples) THEN features
    ELSE Accumulate(samples, i + 1,
            [ch \in Channels |->
                NumAdd(features[ch], NumDiv(NumInt(samples[i][ch]), NumInt(Len(samples))))])

\* extractFeatures without its length check.
extractFeatures_NoCheck(samples) ==
    Returned(Accumulate(samples, 1, [ch \in Channels |-> NumInt(0)]))

extractFeatures(samples) ==
    IF Len(samples) = 0
    THEN Thrown("No EEG data provided for feature extraction")
    ELSE Returned(Accumulate(samples, 1, [ch \in Channels |-> NumInt(0)]))

\* normalizeFeatures without the clamp.
normalizeFeatures_NoClamp(features, min, max) ==
    Returned([key \in DOMAIN features |->
        NumDiv(NumSub(features[key], NumInt(min)), NumInt(max - min))])

\* normalized[k] = (normalized[k] - min) / (max - min), then clamped with
\* Math.max(0, Math.min(1, .)); min and max are not validated.
normalizeFeatures(features, min, max) ==
    Returned([key \in DOMAIN features |->
        LET mapped == NumDiv(NumSub(features[key], NumInt(min)), NumInt(max - min))
        IN  MathMax(NumInt(0), MathMin(NumInt(1), mapped))])

\* Default arguments of normalizeFeatures.
DefaultMin == -50
DefaultMax == 50

\* ------------------------------------------------------------------------
\* Label selection
\* ------------------------------------------------------------------------

\* The running maximum with >= in place of >: the last of tied labels wins.
RECURSIVE SelectFrom_LastWins(_, _, _, _)
SelectFrom_LastWins(result, i, highestScore, detectedEmotion) ==
    IF i > Len(EMOTIONS) THEN detectedEmotion
    ELSE IF result[EMOTIONS[i]] >= highestScore
         THEN SelectFrom_LastWins(result, i + 1, result[EMOTIONS[i]], EMOTIONS[i])
         ELSE SelectFrom_LastWins(result, i + 1, highestScore, detectedEmotion)

\* The running maximum both classifiers use:
\*   let highestScore = 0; let detectedEmotion = 'neutral';
\*   EMOTIONS.forEach(emotion => {
\*     if (result[emotion] > highestScore) { highestScore = ...; detectedEmotion = emotion; } });
RECURSIVE SelectFrom(_, _, _, _)
SelectFrom(result, i, highestScore, detectedEmotion) ==
    IF i > Len(EMOTIONS) THEN detectedEmotion
    ELSE IF result[EMOTIONS[i]] > highestScore
         THEN SelectFrom(result, i + 1, result[EMOTIONS[i]], EMOTIONS[i])
         ELSE SelectFrom(result, i + 1, highestScore, detectedEmotion)

\* The selection in useEmotionClassifier.classify.
SelectLabel(result) == SelectFrom(result, 1, 0, "neutral")

\* The selection in EmotionMonitor.classifyEmotion (the same loop).
DetectEmotion(result) == SelectFrom(result, 1, 0, "neutral")

\* ------------------------------------------------------------------------
\* Inputs
\* ------------------------------------------------------------------------

\* One score per label, as the network's run returns it.
ScoreVectors == [EmotionSet -> ScoreLevels]

MkSample(a, b) ==
    [ch \in Channels \cup {"timestamp"} |->
        IF ch = "timestamp" THEN 0 ELSE a + b * (ChannelIndex(ch) - 1)]

Samples == {MkSample(a, b) : a \in SampleBases, b \in SampleSteps}

Windows == UNION {[1..n -> Samples] : n \in 0..MaxWindow}

MkFeatures(a, b) == [ch \in Channels |-> Num(a + b * (ChannelIndex(ch) - 1), 2)]

FeatureVectors == {MkFeatures(a, b) : a \in FeatureBases, b \in FeatureSteps}

\* ------------------------------------------------------------------------
\* EmotionMonitor
\* ------------------------------------------------------------------------

\* No classifyEmotion call is running.
IdleCycle == [pc |-> "idle"]

\* A Home whose currentEmotion starts as a label.
MonitorInit_NeutralDefault ==
    /\ mounted = FALSE
    /\ isConnected = FALSE
    /\ emotionClassifier = "null"
    /\ dataBuffer = <<>>
    /\ eegData = <<>>
    /\ acqTimers = {}
    /\ clsTimers = {}
    /\ unicornCleanup = 0
    /\ classifierCleanup = 0
    /\ currentEmotion = "neutral"
    /\ homeEegData = 0
    /\ monError = "null"
    /\ appended = 0
    /\ cycle = IdleCycle
    /\ published = FALSE

MonitorInit ==
    /\ mounted = FALSE
    /\ isConnected = FALSE
    /\ emotionClassifier = "null"
    /\ dataBuffer = <<>>
    /\ eegData = <<>>
    /\ acqTimers = {}
    /\ clsTimers = {}
    /\ unicornCleanup = 0
    /\ classifierCleanup = 0
    /\ currentEmotion = "null"
    /\ homeEegData = 0
    /\ monError = "null"
    /\ appended = 0
    /\ cycle = IdleCycle
    /\ published = FALSE

\* A scheduler that starts a task while a classifyEmotion call is running.
TaskMayStart_DuringCycle == TRUE

\* classifyEmotion has no await: timer callbacks, click handlers and renders
\* start only when no call of it is running.
TaskMayStart == cycle.pc = "idle"

\* A classify effect that returns no cleanup.
ClassifierEffectCleanup_NoClear(timers, held) == timers

\* Cleanup of the classify effect: () => clearInterval(classifierInterval)
ClassifierEffectCleanup(timers, held) ==
    IF held = 0 THEN timers ELSE ClearInterval(timers, held)

\* A cleanup that forgets to call cleanupFunction().
UnicornEffectCleanup_NoClear(timers, held) == timers

\* Cleanup of the connect effect:
\*   if (cleanupFunction) cleanupFunction();  -- clearInterval(intervalId)
\*   setIsConnected(false);
UnicornEffectCleanup(timers, held) ==
    IF held = 0 THEN timers ELSE ClearInterval(timers, held)

\* The commit of a render in which isConnected = conn and
\* emotionClassifier = cls: effects whose dependencies changed are cleaned
\* up and run again.  The state updates queued by the effects
\* (setIsConnected(false) in the cleanup, setIsConnected(true) in
\* connectToUnicorn) are applied in order; the last one wins.
Commit(conn, cls) ==
    LET clsChanged == (conn # isConnected) \/ (cls # emotionClassifier)
        conChanged == (conn # isConnected)
        clsAfterCleanup == IF clsChanged
                           THEN ClassifierEffectCleanup(clsTimers, classifierCleanup)
                           ELSE clsTimers
        acqAfterCleanup == IF conChanged
                           THEN UnicornEffectCleanup(acqTimers, unicornCleanup)
                           ELSE acqTimers
        newCls == FreshId(clsAfterCleanup)
        newAcq == FreshId(acqAfterCleanup)
        queued == (IF conChanged THEN <<FALSE>> ELSE <<>>)
                  \o (IF conChanged /\ conn THEN <<TRUE>> ELSE <<>>)
    IN  /\ IF clsChanged
           THEN IF conn /\ cls # "null"
                THEN /\ clsTimers' = clsAfterCleanup \cup {newCls}
                     /\ classifierCleanup' = newCls
                ELSE /\ clsTimers' = clsAfterCleanup
                     /\ classifierCleanup' = 0
           ELSE UNCHANGED <<clsTimers, classifierCleanup>>
        /\ IF conChanged
           THEN IF conn
                THEN /\ acqTimers' = acqAfterCleanup \cup {newAcq}
                     /\ unicornCleanup' = newAcq
                     /\ monError' = "null"
                ELSE /\ acqTimers' = acqAfterCleanup
                     /\ unicornCleanup' = 0
                     /\ UNCHANGED monError
           ELSE UNCHANGED <<acqTimers, unicornCleanup, monError>>
        /\ isConnected' = IF Len(queued) = 0 THEN conn ELSE queued[Len(queued)]
        /\ emotionClassifier' = cls

\* Mount: the three effects run for the first time.  The first one trains
\* the network synchronously and calls setEmotionClassifier(net); the other
\* two see isConnected = false and start nothing.
MountEffects ==
    /\ TaskMayStart
    /\ ~mounted
    /\ mounted' = TRUE
    /\ UNCHANGED <<isConnected, emotionClassifier, dataBuffer, eegData, acqTimers,
                   clsTimers, unicornCleanup, classifierCleanup, currentEmotion,
                   homeEegData, monError, appended, cycle, published>>
    /\ UNCHANGED <<hookVars, pureVars, chatVars, musicVars>>

\* The render that follows setEmotionClassifier(net).
ClassifierTrained ==
    /\ TaskMayStart
    /\ mounted
    /\ emotionClassifier = "null"
    /\ Commit(isConnected, "net")
    /\ UNCHANGED <<mounted, dataBuffer, eegData, currentEmotion, homeEegData, appended,
                   cycle, published>>
    /\ UNCHANGED <<hookVars, pureVars, chatVars, musicVars>>

\* Click on the Connect / Disconnect button:
\*   onClick={() => setIsConnected(!isConnected)}
\* followed by the render and its effects.
ClickConnect ==
    /\ TaskMayStart
    /\ mounted
    /\ ~isConnected
    /\ Commit(TRUE, emotionClassifier)
    /\ UNCHANGED <<mounted, dataBuffer, eegData, currentEmotion, homeEegData, appended,
                   cycle, published>>
    /\ UNCHANGED <<hookVars, pureVars, chatVars, musicVars>>

ClickDisconnect ==
    /\ TaskMayStart
    /\ mounted
    /\ isConnected
    /\ Commit(FALSE, emotionClassifier)
    /\ UNCHANGED <<mounted, dataBuffer, eegData, currentEmotion, homeEegData, appended,
                   cycle, published>>
    /\ UNCHANGED <<hookVars, pureVars, chatVars, musicVars>>

\* One firing of an acquisition interval (the setInterval callback of
\* connectToUnicorn).  The sample is identified by its append index.
AcquisitionTick ==
    /\ TaskMayStart
    /\ appended < MaxAppends
    /\ \E id \in acqTimers :
        LET newData == appended + 1 IN
        /\ dataBuffer' = SliceLast(Append(dataBuffer, newData), BufferCap)
        /\ eegData' = SliceLast(Append(eegData, newData), DisplayCap)
        /\ homeEegData' = newData
        /\ appended' = newData
    /\ UNCHANGED <<mounted, isConnected, emotionClassifier, acqTimers, clsTimers,
                   unicornCleanup, classifierCleanup, currentEmotion, monError,
                   cycle, published>>
    /\ UNCHANGED <<hookVars, pureVars, chatVars, musicVars>>

\* classifyEmotion up to the forEach: returns at once without a classifier
\* or with an empty buffer (line 116); otherwise the call is under way.
classifyEmotion ==
    IF emotionClassifier = "null" \/ Len(dataBuffer) = 0
    THEN UNCHANGED cycle
    ELSE cycle' = [pc |-> "averaging", start |-> dataBuffer]

\* One firing of the classification interval.
ClassificationTick ==
    /\ TaskMayStart
    /\ \E id \in clsTimers : classifyEmotion
    /\ UNCHANGED <<mounted, isConnected, emotionClassifier, dataBuffer, eegData,
                   acqTimers, clsTimers, unicornCleanup, classifierCleanup,
                   currentEmotion, homeEegData, monError, appended, published>>
    /\ UNCHANGED <<hookVars, pureVars, chatVars, musicVars>>

\* Click on "Classify Emotion" (disabled={!isConnected || isClassifying}).
ClickClassify ==
    /\ TaskMayStart
    /\ mounted
    /\ isConnected
    /\ classifyEmotion
    /\ UNCHANGED <<mounted, isConnected, emotionClassifier, dataBuffer, eegData,
                   acqTimers, clsTimers, unicornCleanup, classifierCleanup,
                   currentEmotion, homeEegData, monError, appended, published>>
    /\ UNCHANGED <<hookVars, pureVars, chatVars, musicVars>>

\* The forEach of classifyEmotion: it iterates dataBuffer.current and divides
\* every term by dataBuffer.current.length, both read here.
classifyEmotionAverage ==
    /\ cycle.pc = "averaging"
    /\ cycle' = [pc |-> "averaged", start |-> cycle.start,
                 samples |-> dataBuffer, divisor |-> Len(dataBuffer)]
    /\ UNCHANGED <<mounted, isConnected, emotionClassifier, dataBuffer, eegData,
                   acqTimers, clsTimers, unicornCleanup, classifierCleanup,
                   currentEmotion, homeEegData, monError, appended, published>>
    /\ UNCHANGED <<hookVars, pureVars, chatVars, musicVars>>

\* The rest of classifyEmotion: the network runs on the averages and the
\* selected label is passed to onEmotionDetected, or the network throws and
\* the error is recorded.
classifyEmotionPublish ==
    /\ cycle.pc = "averaged"
    /\ cycle' = IdleCycle
    /\ \/ \E result \in ScoreVectors :
              /\ currentEmotion' = DetectEmotion(result)
              /\ published' = TRUE
              /\ UNCHANGED monError
       \/ /\ monError' = "Classification error"
          /\ UNCHANGED <<currentEmotion, published>>
    /\ UNCHANGED <<mounted, isConnected, emotionClassifier, dataBuffer, eegData,
                   acqTimers, clsTimers, unicornCleanup, classifierCleanup,
                   homeEegData, appended>>
    /\ UNCHANGED <<hookVars, pureVars, chatVars, musicVars>>

MonitorNext ==
    \/ MountEffects
    \/ ClassifierTrained
    \/ ClickConnect
    \/ ClickDisconnect
    \/ AcquisitionTick
    \/ ClassificationTick
    \/ ClickClassify
    \/ classifyEmotionAverage
    \/ classifyEmotionPublish

\* ------------------------------------------------------------------------
\* useEmotionClassifier
\* ------------------------------------------------------------------------

NoCall == [made |-> FALSE]

HookInit ==
    /\ initPc = "idle"
    /\ classifier = "null"
    /\ isTraining = FALSE
    /\ trainError = "null"
    /\ isReady = FALSE
    /\ trainStarts = 0
    /\ renders = 0
    /\ lastClassify = NoCall

\* initClassifier that publishes the network before training it.
initClassifier_PublishesEarly ==
    /\ initPc = "idle"
    /\ initPc' = "awaiting"
    /\ isTraining' = TRUE
    /\ trainError' = "null"
    /\ trainStarts' = trainStarts + 1
    /\ classifier' = "net"
    /\ isReady' = TRUE
    /\ UNCHANGED <<renders, lastClassify>>
    /\ UNCHANGED <<monitorVars, pureVars, chatVars, musicVars>>

\* The mount effect (dependencies []): initClassifier() runs up to its
\* await: setIsTraining(true); setTrainError(null); net.trainAsync(...).
initClassifier ==
    /\ initPc = "idle"
    /\ initPc' = "awaiting"
    /\ isTraining' = TRUE
    /\ trainError' = "null"
    /\ trainStarts' = trainStarts + 1
    /\ UNCHANGED <<classifier, isReady, renders, lastClassify>>
    /\ UNCHANGED <<monitorVars, pureVars, chatVars, musicVars>>

\* initClassifier without its finally block.
TrainingResolved_NoFinally ==
    /\ initPc = "awaiting"
    /\ initPc' = "resolved"
    /\ classifier' = "net"
    /\ isReady' = TRUE
    /\ UNCHANGED <<isTraining, trainError, trainStarts, renders, lastClassify>>
    /\ UNCHANGED <<monitorVars, pureVars, chatVars, musicVars>>

\* trainAsync resolves: setClassifier(net); setIsReady(true); and the
\* finally block: setIsTraining(false).  One batch, one render.
TrainingResolved ==
    /\ initPc = "awaiting"
    /\ initPc' = "resolved"
    /\ classifier' = "net"
    /\ isReady' = TRUE
    /\ isTraining' = FALSE
    /\ UNCHANGED <<trainError, trainStarts, renders, lastClassify>>
    /\ UNCHANGED <<monitorVars, pureVars, chatVars, musicVars>>

\* trainAsync rejects: the catch block sets trainError, the finally block
\* clears isTraining.
TrainingRejected ==
    /\ initPc = "awaiting"
    /\ initPc' = "rejected"
    /\ trainError' = "Unknown error during training"
    /\ isTraining' = FALSE
    /\ UNCHANGED <<classifier, isReady, trainStarts, renders, lastClassify>>
    /\ UNCHANGED <<monitorVars, pureVars, chatVars, musicVars>>

\* A re-render whose effect lacks the [] dependency list: initClassifier
\* starts again.
HookRender_RerunsEffect ==
    /\ initPc # "idle"
    /\ renders < MaxRenders
    /\ renders' = renders + 1
    /\ initPc' = "awaiting"
    /\ isTraining' = TRUE
    /\ trainError' = "null"
    /\ trainStarts' = trainStarts + 1
    /\ UNCHANGED <<classifier, isReady, lastClassify>>
    /\ UNCHANGED <<monitorVars, pureVars, chatVars, musicVars>>

\* A re-render of the component using the hook: the effect has no
\* dependencies, so it does not run again.
HookRender ==
    /\ initPc # "idle"
    /\ renders < MaxRenders
    /\ renders' = renders + 1
    /\ UNCHANGED <<initPc, classifier, isTraining, trainError, isReady, trainStarts,
                   lastClassify>>
    /\ UNCHANGED <<monitorVars, pureVars, chatVars, musicVars>>

\* What classifier.run does on a call: it returns one score per label, or
\* throws.
RunReturns(result) == [throws |-> FALSE, result |-> result]
RunThrows == [throws |-> TRUE, result |-> [e \in EmotionSet |-> 0]]

\* The score vectors the hook model feeds to the selection: all zero, and
\* for each label the vector that scores it 2 and the rest 1.
HookScoreVectors ==
    {[e \in EmotionSet |-> 0]}
    \cup {[e \in EmotionSet |-> IF e = a THEN 2 ELSE 1] : a \in EmotionSet}

\* The windows the hook model passes to classify: the empty one and the
\* one-sample ones.
HookWindows == {w \in Windows : Len(w) <= 1}

RunOutcomes == {RunThrows} \cup {RunReturns(r) : r \in HookScoreVectors}

\* The try block of classify: extraction, normalization, forward run,
\* selection.  An exception of any of them leaves the block.
classifyTry(samples, run) ==
    LET features == extractFeatures(samples) IN
    IF features.threw THEN Thrown(features.message)
    ELSE LET normalizedFeatures == normalizeFeatures(features.value, DefaultMin, DefaultMax) IN
         IF normalizedFeatures.threw THEN Thrown(normalizedFeatures.message)
         ELSE IF run.throws THEN Thrown("run failed")
         ELSE Returned(SelectLabel(run.result))

\* classify without its catch block: a failure of the try block propagates.
classify_NoCatch(cls, ready, samples, run) ==
    IF cls = "null" \/ ~ready
    THEN Returned("neutral")
    ELSE classifyTry(samples, run)

\* classify(eegData), with cls and ready the values of classifier and
\* isReady its closure holds.
classify(cls, ready, samples, run) ==
    IF cls = "null" \/ ~ready
    THEN Returned("neutral")
    ELSE LET tried == classifyTry(samples, run) IN
         IF tried.threw THEN Returned("neutral") ELSE tried

\* A caller invokes the classify of the current render.
CallClassify ==
    /\ \E eegWindow \in HookWindows, run \in RunOutcomes :
        lastClassify' = [made |-> TRUE,
                         eegData |-> eegWindow,
                         run |-> run,
                         pcAtCall |-> initPc,
                         classifierAtCall |-> classifier,
                         isReadyAtCall |-> isReady,
                         ret |-> classify(classifier, isReady, eegWindow, run)]
    /\ UNCHANGED <<initPc, classifier, isTraining, trainError, isReady, trainStarts, renders>>
    /\ UNCHANGED <<monitorVars, pureVars, chatVars, musicVars>>

HookNext ==
    \/ initClassifier
    \/ TrainingResolved
    \/ TrainingRejected
    \/ HookRender
    \/ CallClassify

\* ------------------------------------------------------------------------
\* Strings that are searched are sequences of characters
\* ------------------------------------------------------------------------
KeyUpbeat ==
    <<"u", "p", "b", "e", "a", "t", " ", "h", "a", "p", "p", "y", " ", "m", "u", "s", "i", "c">>
KeyMelancholic ==
    <<"m", "e", "l", "a", "n", "c", "h", "o", "l", "i", "c", " ", "p", "i", "a", "n", "o", " ", "m", "u", "s", "i", "c">>
KeyCalming ==
    <<"c", "a", "l", "m", "i", "n", "g", " ", "a", "m", "b", "i", "e", "n", "t", " ", "m", "u", "s", "i", "c">>
KeyRelaxing ==
    <<"r", "e", "l", "a", "x", "i", "n", "g", " ", "m", "e", "d", "i", "t", "a", "t", "i", "o", "n", " ", "m", "u", "s", "i", "c">>
KeySoothing ==
    <<"s", "o", "o", "t", "h", "i", "n", "g", " ", "a", "c", "o", "u", "s", "t", "i", "c", " ", "m", "u", "s", "i", "c">>
KeyInspirational ==
    <<"i", "n", "s", "p", "i", "r", "a", "t", "i", "o", "n", "a", "l", " ", "o", "r", "c", "h", "e", "s", "t", "r", "a", "l", " ", "m", "u", "s", "i", "c">>
KeyLofi ==
    <<"l", "o", "f", "i", " ", "s", "t", "u", "d", "y", " ", "b", "e", "a", "t", "s">>

\* Further queries: other letter case, no match, a fragment of every key, a
\* fragment of one key, a text containing a key, and the empty string.
QueryUpperUpbeat ==
    <<"U", "P", "B", "E", "A", "T", " ", "H", "a", "p", "p", "y", " ", "M", "u", "s", "i", "c">>
QueryNonsense ==
    <<"x", "y", "z", " ", "n", "o", "n", "s", "e", "n", "s", "e">>
QueryMusic ==
    <<"m", "u", "s", "i", "c">>
QueryLofi ==
    <<"L", "o", "f", "i">>
QueryLongCalming ==
    <<"p", "l", "a", "y", " ", "c", "a", "l", "m", "i", "n", "g", " ", "a", "m", "b", "i", "e", "n", "t", " ", "m", "u", "s", "i", "c", " ", "n", "o", "w">>
QueryEmpty ==
    <<>>

\* String.prototype.toLowerCase, character by character.
LowerChar(c) ==
    CASE c = "A" -> "a"
      [] c = "B" -> "b"
      [] c = "C" -> "c"
      [] c = "D" -> "d"
      [] c = "E" -> "e"
      [] c = "F" -> "f"
      [] c = "G" -> "g"
      [] c = "H" -> "h"
      [] c = "I" -> "i"
      [] c = "J" -> "j"
      [] c = "K" -> "k"
      [] c = "L" -> "l"
      [] c = "M" -> "m"
      [] c = "N" -> "n"
      [] c = "O" -> "o"
      [] c = "P" -> "p"
      [] c = "Q" -> "q"
      [] c = "R" -> "r"
      [] c = "S" -> "s"
      [] c = "T" -> "t"
      [] c = "U" -> "u"
      [] c = "V" -> "v"
      [] c = "W" -> "w"
      [] c = "X" -> "x"
      [] c = "Y" -> "y"
      [] c = "Z" -> "z"
      [] OTHER -> c

toLowerCase(str) == [i \in 1..Len(str) |-> LowerChar(str[i])]

\* String.prototype.includes: sub occurs in str (the empty string always does).
Includes(str, sub) ==
    \E i \in 1..(Len(str) - Len(sub) + 1) : SubSeq(str, i, i + Len(sub) - 1) = sub

\* ------------------------------------------------------------------------
\* youtubeService and the /api/youtube-search handler
\* ------------------------------------------------------------------------

\* Object.keys(fallbackTracks) and Object.keys(mockResults), in insertion
\* order (both tables list the same keys in the same order).
GenreKeys ==
    <<KeyUpbeat, KeyMelancholic, KeyCalming, KeyRelaxing, KeySoothing,
      KeyInspirational, KeyLofi>>

\* Index of 'lofi study beats' in GenreKeys.
LofiIndex == CHOOSE i \in 1..Len(GenreKeys) : GenreKeys[i] = KeyLofi

Track(id, title) == [id |-> id, title |-> title]

\* A track of mockResults: its thumbnail is the hqdefault image of its id.
MockTrack(id, title) == [id |-> id, title |-> title, thumbnail |-> id]

\* fallbackTracks, indexed as GenreKeys.
fallbackTracks ==
    <<<<Track("dQw4w9WgXcQ", "Happy Vibes"), Track("y6120QOlsfU", "Uplifting Rhythm"), Track("L_jWHffIx5E", "Sunny Day")>>,
      <<Track("rR94NDIfGmA", "Rainy Day Piano"), Track("4N3N1MlvVc4", "Melancholy Sonata"), Track("wAPCSnAhhC8", "Nostalgic Memories")>>,
      <<Track("DWcJFNfaw9c", "Tranquil Waters"), Track("lTRiuFIWV54", "Forest Ambience"), Track("hHW1oY26kxQ", "Peaceful Horizon")>>,
      <<Track("5qap5aO4i9A", "Zen Garden"), Track("DfG6VKnjrVw", "Inner Peace"), Track("lFcSrYw-ARY", "Mindful Moments")>>,
      <<Track("jdYJf_ybyVo", "Gentle Guitar"), Track("HSOtku1j600", "Acoustic Dreams"), Track("KkOF8UiB7u8", "Campfire Melodies")>>,
      <<Track("oN2Xs-MvxLw", "Epic Journey"), Track("FK30dkXOTck", "New Horizons"), Track("XYKUeZQbMF0", "Awakening")>>,
      <<Track("5qap5aO4i9A", "Chill Beats to Study To"), Track("bmVKaAV_7-A", "Lofi Cafe"), Track("DWcJFNfaw9c", "Late Night Study Session")>>>>

\* mockResults, indexed as GenreKeys.
mockResults ==
    <<<<MockTrack("dQw4w9WgXcQ", "Happy Vibes"), MockTrack("y6120QOlsfU", "Uplifting Rhythm"), MockTrack("L_jWHffIx5E", "Sunny Day")>>,
      <<MockTrack("rR94NDIfGmA", "Rainy Day Piano"), MockTrack("4N3N1MlvVc4", "Melancholy Sonata"), MockTrack("wAPCSnAhhC8", "Nostalgic Memories")>>,
      <<MockTrack("DWcJFNfaw9c", "Tranquil Waters"), MockTrack("lTRiuFIWV54", "Forest Ambience"), MockTrack("hHW1oY26kxQ", "Peaceful Horizon")>>,
      <<MockTrack("5qap5aO4i9A", "Zen Garden"), MockTrack("DfG6VKnjrVw", "Inner Peace"), MockTrack("lFcSrYw-ARY", "Mindful Moments")>>,
      <<MockTrack("jdYJf_ybyVo", "Gentle Guitar"), MockTrack("HSOtku1j600", "Acoustic Dreams"), MockTrack("KkOF8UiB7u8", "Campfire Melodies")>>,
      <<MockTrack("oN2Xs-MvxLw", "Epic Journey"), MockTrack("FK30dkXOTck", "New Horizons"), MockTrack("XYKUeZQbMF0", "Awakening")>>,
      <<MockTrack("5qap5aO4i9A", "Chill Beats to Study To"), MockTrack("bmVKaAV_7-A", "Lofi Cafe"), MockTrack("DWcJFNfaw9c", "Late Night Study Session")>>>>

\* The loop of both lookups: the first key, in table order, that the
\* lower-cased query contains or that contains it; 0 when there is none.
FirstMatch(normalized) ==
    IF \E i \in 1..Len(GenreKeys) :
          Includes(normalized, GenreKeys[i]) \/ Includes(GenreKeys[i], normalized)
    THEN CHOOSE i \in 1..Len(GenreKeys) :
          /\ Includes(normalized, GenreKeys[i]) \/ Includes(GenreKeys[i], normalized)
          /\ \A j \in 1..(i - 1) :
                ~(Includes(normalized, GenreKeys[j]) \/ Includes(GenreKeys[j], normalized))
    ELSE 0

\* An HTTP response of the handler.
Response(status, list, error) == [status |-> status, tracks |-> list, error |-> error]

\* A handler that answers every query from the default entry.
handler_DefaultOnly(method, hasQuery, query) ==
    IF method # "GET" THEN Response(405, <<>>, "Method not allowed")
    ELSE IF ~hasQuery \/ Len(query) = 0 THEN Response(400, <<>>, "Missing query parameter")
    ELSE Response(200, mockResults[LofiIndex], "")

\* handler(req, res): hasQuery is false when the request carries no query
\* parameter.
handler(method, hasQuery, query) ==
    IF method # "GET" THEN Response(405, <<>>, "Method not allowed")
    ELSE IF ~hasQuery \/ Len(query) = 0 THEN Response(400, <<>>, "Missing query parameter")
    ELSE LET queryString == toLowerCase(query)
             found == FirstMatch(queryString)
             bestMatch == IF found = 0 THEN LofiIndex ELSE found
         IN  Response(200, mockResults[bestMatch], "")

\* What axios.get('/api/youtube-search') meets: the repository's handler, a
\* network error, a non-2xx status, or a 2xx answer with some other payload
\* (data absent, data without tracks, or data with a tracks list).
RemoteHandler == [kind |-> "handler", status |-> 200, hasData |-> TRUE, hasTracks |-> TRUE, tracks |-> <<>>]
RemoteNetworkError == [kind |-> "networkError", status |-> 0, hasData |-> FALSE, hasTracks |-> FALSE, tracks |-> <<>>]
RemoteStatus(st) == [kind |-> "status", status |-> st, hasData |-> TRUE, hasTracks |-> TRUE, tracks |-> <<>>]
RemotePayload(hasData, hasTracks, list) ==
    [kind |-> "payload", status |-> 200, hasData |-> hasData, hasTracks |-> hasTracks, tracks |-> list]

\* axios.get: rejects on a network error and on a status outside 2xx,
\* otherwise resolves with the response data.
AxiosGet(genre, remote) ==
    IF remote.kind = "networkError" THEN [rejected |-> TRUE, data |-> remote]
    ELSE IF remote.kind = "handler"
    THEN LET res == handler("GET", TRUE, genre) IN
         IF res.status >= 200 /\ res.status < 300
         THEN [rejected |-> FALSE, data |-> RemotePayload(TRUE, TRUE, res.tracks)]
         ELSE [rejected |-> TRUE, data |-> remote]
    ELSE IF remote.status >= 200 /\ remote.status < 300
         THEN [rejected |-> FALSE, data |-> remote]
         ELSE [rejected |-> TRUE, data |-> remote]

\* The catch block of searchYouTubeVideos without toLowerCase.
FallbackFor_CaseSensitive(genre) ==
    LET found == FirstMatch(genre)
    IN  IF found # 0 THEN fallbackTracks[found] ELSE fallbackTracks[LofiIndex]

\* The catch block of searchYouTubeVideos.
FallbackFor(genre) ==
    LET normalizedGenre == toLowerCase(genre)
        found == FirstMatch(normalizedGenre)
    IN  IF found # 0 THEN fallbackTracks[found] ELSE fallbackTracks[LofiIndex]

\* searchYouTubeVideos(genre): the request is always sent; a rejection, or
\* a TypeError on reading response.data.tracks, reaches the catch block;
\* otherwise the result is response.data.tracks || [].
searchYouTubeVideos(genre, remote) ==
    LET response == AxiosGet(genre, remote) IN
    IF response.rejected THEN [sent |-> TRUE, threw |-> FALSE, tracks |-> FallbackFor(genre)]
    ELSE IF ~response.data.hasData
         THEN [sent |-> TRUE, threw |-> FALSE, tracks |-> FallbackFor(genre)]
    ELSE IF response.data.hasTracks
         THEN [sent |-> TRUE, threw |-> FALSE, tracks |-> response.data.tracks]
         ELSE [sent |-> TRUE, threw |-> FALSE, tracks |-> <<>>]

\* ------------------------------------------------------------------------
\* Genre and tone lookups
\* ------------------------------------------------------------------------

\* JavaScript values a lookup can yield: a string, undefined, or a member
\* inherited from Object.prototype (a function or object, hence truthy).
JsString(v) == [kind |-> "string", value |-> v]
JsUndefined == [kind |-> "undefined", value |-> <<>>]
JsObject    == [kind |-> "object", value |-> <<>>]

\* Property names that every object literal inherits from Object.prototype.
ObjectPrototypeKeys ==
    {"constructor", "toString", "valueOf", "hasOwnProperty", "__proto__"}

\* table[key] on an object literal whose own keys are ownKeys: an own
\* property, an inherited one, or undefined.
PropertyKind(ownKeys, key) ==
    IF key \in ownKeys THEN "own"
    ELSE IF key \in ObjectPrototypeKeys THEN "inherited"
    ELSE "undefined"

\* !emotion: null and the empty string are falsy.
Falsy(emotion) == emotion \in {"null", ""}

\* The emotionToGenre table of getRecommendedGenre and the genreMap of
\* llmService.emotionToGenre (the same entries).
GenreOf(emotion) ==
    CASE emotion = "happy" -> KeyUpbeat
      [] emotion = "sad" -> KeyMelancholic
      [] emotion = "angry" -> KeyCalming
      [] emotion = "calm" -> KeyRelaxing
      [] emotion = "fear" -> KeySoothing
      [] emotion = "surprise" -> KeyInspirational
      [] emotion = "neutral" -> KeyLofi

\* getRecommendedGenre(emotion):
\*   if (!emotion) return 'lofi study beats';
\*   return emotionToGenre[emotion] || 'lofi study beats';
getRecommendedGenre(emotion) ==
    IF Falsy(emotion) THEN JsString(KeyLofi)
    ELSE CASE PropertyKind(EmotionSet, emotion) = "own" -> JsString(GenreOf(emotion))
           [] PropertyKind(EmotionSet, emotion) = "inherited" -> JsObject
           [] OTHER -> JsString(KeyLofi)

\* llmService.emotionToGenre(emotion):
\*   return genreMap[emotion] || 'lofi study beats';
emotionToGenre(emotion) ==
    CASE PropertyKind(EmotionSet, emotion) = "own" -> JsString(GenreOf(emotion))
      [] PropertyKind(EmotionSet, emotion) = "inherited" -> JsObject
      [] OTHER -> JsString(KeyLofi)

\* emotionToTone (llmService.ts and ChatInterface hold the same table).
emotionToTone(emotion) ==
    CASE emotion = "happy" -> "enthusiastic and upbeat"
      [] emotion = "sad" -> "empathetic and comforting"
      [] emotion = "angry" -> "calm and de-escalating"
      [] emotion = "calm" -> "peaceful and measured"
      [] emotion = "fear" -> "reassuring and supportive"
      [] emotion = "surprise" -> "engaged and attentive"
      [] emotion = "neutral" -> "balanced and informative"

\* The tone of sendMessageToLLM:
\*   currentEmotion ? emotionToTone[currentEmotion] || 'neutral and helpful'
\*                  : 'neutral and helpful'
LlmTone(emotion) ==
    IF Falsy(emotion) THEN JsString("neutral and helpful")
    ELSE CASE PropertyKind(EmotionSet, emotion) = "own" -> JsString(emotionToTone(emotion))
           [] PropertyKind(EmotionSet, emotion) = "inherited" -> JsObject
           [] OTHER -> JsString("neutral and helpful")

\* The tone of ChatInterface.handleSendMessage:
\*   currentEmotion ? emotionToTone[currentEmotion] : 'neutral and helpful'
ChatTone(emotion) ==
    IF Falsy(emotion) THEN JsString("neutral and helpful")
    ELSE CASE PropertyKind(EmotionSet, emotion) = "own" -> JsString(emotionToTone(emotion))
           [] PropertyKind(EmotionSet, emotion) = "inherited" -> JsObject
           [] OTHER -> JsUndefined

\* ${currentEmotion || 'neutral'}
FeelingOf(emotion) == IF Falsy(emotion) THEN "neutral" ELSE emotion

\* ------------------------------------------------------------------------
\* Sample generators
\* ------------------------------------------------------------------------

\* Math.random(): the draw with index k of the grid.
MathRandom(k) == Num(k, RandomSteps)

\* The eight draws of one generator call: channel i gets the grid index
\* (a + b * i) mod RandomSteps.
DrawVectors ==
    {[i \in 1..8 |-> (a + b * i) % RandomSteps] :
        a \in 0..(RandomSteps - 1), b \in 0..(RandomSteps - 1)}

\* generateSimulatedEegData(): Math.random() * 100 - 50 per channel.
generateSimulatedEegData(draws) ==
    [ch \in Channels \cup {"timestamp"} |->
        IF ch = "timestamp" THEN NumInt(0)
        ELSE NumSub(NumMul(MathRandom(draws[ChannelIndex(ch)]), NumInt(100)), NumInt(50))]

\* A jitter of twice the width.
randomize_Wide(base, r) ==
    NumAdd(NumInt(base), NumSub(NumMul(r, NumInt(20)), NumInt(5)))

\* randomize = (base) => base + (Math.random() * 10 - 5)
randomize(base, r) ==
    NumAdd(NumInt(base), NumSub(NumMul(r, NumInt(10)), NumInt(5)))

\* The base values of the switch in generateEmotionPattern, eeg1..eeg8; the
\* default branch serves every other string.
PatternBase(emotion) ==
    CASE emotion = "happy"    -> <<40, 30, 25, 20, 15, 15, 10, 10>>
      [] emotion = "sad"      -> <<15, 20, 20, 25, 35, 40, 30, 25>>
      [] emotion = "angry"    -> <<35, 40, 35, 35, 35, 40, 45, 40>>
      [] emotion = "calm"     -> <<15, 15, 20, 20, 15, 15, 15, 15>>
      [] emotion = "fear"     -> <<30, 35, 40, 35, 45, 40, 35, 45>>
      [] emotion = "surprise" -> <<45, 40, 35, 30, 35, 40, 45, 35>>
      [] OTHER                -> <<25, 25, 25, 25, 25, 25, 25, 25>>

\* generateEmotionPattern(emotion)
generateEmotionPattern(emotion, draws) ==
    [ch \in Channels \cup {"timestamp"} |->
        IF ch = "timestamp" THEN NumInt(0)
        ELSE randomize(PatternBase(emotion)[ChannelIndex(ch)],
                       MathRandom(draws[ChannelIndex(ch)]))]

\* ------------------------------------------------------------------------
\* llmService: sendMessageToLLM and getMusicRecommendation
\* ------------------------------------------------------------------------

KeyMissingText ==
    <<"A", "P", "I", " ", "k", "e", "y", " ", "i", "s", " ", "m", "i", "s", "s", "i", "n",
      "g", ".", " ", "P", "l", "e", "a", "s", "e", " ", "s", "e", "t", " ", "y", "o", "u",
      "r", " ", "N", "E", "X", "T", "_", "P", "U", "B", "L", "I", "C", "_", "O", "P", "E",
      "N", "R", "O", "U", "T", "E", "R", "_", "A", "P", "I", "_", "K", "E", "Y", " ", "i",
      "n", " ", ".", "e", "n", "v", ".", "l", "o", "c", "a", "l">>

LlmErrorText ==
    <<"S", "o", "r", "r", "y", ",", " ", "I", " ", "e", "n", "c", "o", "u", "n", "t", "e",
      "r", "e", "d", " ", "a", "n", " ", "e", "r", "r", "o", "r", ".", " ", "P", "l", "e",
      "a", "s", "e", " ", "t", "r", "y", " ", "a", "g", "a", "i", "n", " ", "l", "a", "t",
      "e", "r", ".">>

LlmNoResponseText ==
    <<"I", "'", "m", " ", "s", "o", "r", "r", "y", ",", " ", "I", " ", "c", "o", "u", "l",
      "d", "n", "'", "t", " ", "g", "e", "n", "e", "r", "a", "t", "e", " ", "a", " ", "r",
      "e", "s", "p", "o", "n", "s", "e", ".">>

\* Contents a completion carries: a genre, a genre in quotes, a genre with
\* blanks around it, a blank, a pair of quotes, nothing.
LlmContents ==
    {<<"j", "a", "z", "z">>,
     <<"\"", "j", "a", "z", "z", "\"">>,
     <<" ", "j", "a", "z", "z", " ">>,
     <<" ">>,
     <<"\"", "\"">>,
     <<>>}

\* What the completion request comes back with.
LlmOutcomes ==
    {[kind |-> k, content |-> <<>>] : k \in {"networkError", "errorResponse", "noChoices", "emptyChoices"}}
    \cup {[kind |-> "content", content |-> c] : c \in LlmContents}

\* sendMessageToLLM(messages, currentEmotion, apiKey): the text and whether
\* the error field is set.  Every failure is caught inside.
sendMessageToLLM(hasKey, outcome) ==
    IF ~hasKey THEN [text |-> KeyMissingText, error |-> TRUE]
    ELSE IF outcome.kind \in {"networkError", "errorResponse", "noChoices"}
    THEN [text |-> LlmErrorText, error |-> TRUE]
    ELSE IF outcome.kind = "content" /\ Len(outcome.content) > 0
    THEN [text |-> outcome.content, error |-> FALSE]
    ELSE [text |-> LlmNoResponseText, error |-> FALSE]

\* .replace(/^"/, '').replace(/"$/, '')
StripQuotes(text) ==
    LET a == IF Len(text) > 0 /\ text[1] = "\"" THEN Tail(text) ELSE text
    IN  IF Len(a) > 0 /\ a[Len(a)] = "\"" THEN SubSeq(a, 1, Len(a) - 1) ELSE a

\* .trim()
RECURSIVE TrimStart(_)
TrimStart(text) ==
    IF Len(text) > 0 /\ text[1] = " " THEN TrimStart(Tail(text)) ELSE text

RECURSIVE TrimEnd(_)
TrimEnd(text) ==
    IF Len(text) > 0 /\ text[Len(text)] = " "
    THEN TrimEnd(SubSeq(text, 1, Len(text) - 1)) ELSE text

TrimChars(text) == TrimEnd(TrimStart(text))

\* getMusicRecommendation(emotion, apiKey)
getMusicRecommendation(emotion, hasKey, outcome) ==
    IF Falsy(emotion) THEN JsString(KeyLofi)
    ELSE LET response == sendMessageToLLM(hasKey, outcome)
             genre == TrimChars(StripQuotes(response.text))
         IN  IF Len(genre) > 0 THEN JsString(genre) ELSE emotionToGenre(emotion)

\* ------------------------------------------------------------------------
\* MusicPlayer
\* ------------------------------------------------------------------------

\* progress reaches 100 in steps of 0.5.
ProgressFull == 200

\* currentTrack = null
NoTrack == [id |-> "null", title |-> ""]

\* Emotions Home passes down while the player is used.
MusicEmotions == {"happy", "sad"}

\* What the track search of the player meets: the repository's handler.
MusicRemotes == {RemoteHandler}

\* The values of currentTrack and tracks that the functions of one render
\* close over.
Closure(track, list) == [currentTrack |-> track, tracks |-> list]

\* The player state the handlers read and write.
PlayerState ==
    [isPlaying |-> isPlaying, currentTrack |-> currentTrack, progress |-> progress,
     playerRef |-> playerRef, progressInterval |-> progressInterval,
     timers |-> progTimers, pendingLoads |-> pendingLoads]

SetPlayer(st) ==
    /\ isPlaying' = st.isPlaying
    /\ currentTrack' = st.currentTrack
    /\ progress' = st.progress
    /\ playerRef' = st.playerRef
    /\ progressInterval' = st.progressInterval
    /\ progTimers' = st.timers
    /\ pendingLoads' = st.pendingLoads

\* if (progressInterval.current) clearInterval(progressInterval.current)
ClearProgress(st) ==
    IF st.progressInterval = 0 THEN st.timers
    ELSE {t \in st.timers : t.id # st.progressInterval}

\* setInterval(...) by a function of the render with closure c, stored in
\* progressInterval.current.
StartProgress(st, timers, c) ==
    LET id == FreshId({t.id : t \in timers})
    IN  [st EXCEPT !.timers = timers \cup {[id |-> id, closure |-> c]},
                   !.progressInterval = id]

\* A loadAndPlayTrack that starts its interval without clearing the old one.
LoadTail_NoClear(st, track, c) ==
    StartProgress([st EXCEPT !.currentTrack = track, !.isPlaying = TRUE, !.progress = 0],
                  st.timers, c)

\* loadAndPlayTrack after the player exists: setCurrentTrack, setIsPlaying,
\* setProgress(0), clear the old interval, start a new one.
LoadTail(st, track, c) ==
    StartProgress([st EXCEPT !.currentTrack = track, !.isPlaying = TRUE, !.progress = 0],
                  ClearProgress(st), c)

\* loadAndPlayTrack(track) of the render with closure c: without a player it
\* suspends at loadYouTubePlayer, otherwise it runs to its end.
loadAndPlayTrack(st, track, c) ==
    IF st.playerRef = "null"
    THEN [st EXCEPT !.pendingLoads = @ \cup {[track |-> track, closure |-> c]}]
    ELSE LoadTail(st, track, c)

\* tracks.findIndex(t => t.id === id), 0-based, -1 when absent.
FindIndex(list, id) ==
    IF \E i \in 1..Len(list) : list[i].id = id
    THEN (CHOOSE i \in 1..Len(list) :
              list[i].id = id /\ \A j \in 1..(i - 1) : list[j].id # id) - 1
    ELSE -1

\* handleNext of the render with closure c.
handleNext(st, c) ==
    IF c.currentTrack.id = "null" \/ Len(c.tracks) = 0 THEN st
    ELSE LET currentIndex == FindIndex(c.tracks, c.currentTrack.id)
             nextIndex == (currentIndex + 1) % Len(c.tracks)
         IN  loadAndPlayTrack(st, c.tracks[nextIndex + 1], c)

MusicInit ==
    /\ musicMounted = FALSE
    /\ isPlaying = FALSE
    /\ currentTrack = NoTrack
    /\ tracks = <<>>
    /\ playerIsLoading = FALSE
    /\ progress = 0
    /\ playerRef = "null"
    /\ progressInterval = 0
    /\ progTimers = {}
    /\ pendingFetches = {}
    /\ pendingLoads = {}
    /\ emotionChanges = 0
    /\ lastEvent = "other"

OtherThanMusic == <<mounted, isConnected, emotionClassifier, dataBuffer, eegData,
                    acqTimers, clsTimers, unicornCleanup, classifierCleanup,
                    homeEegData, monError, appended, cycle>>

\* Mount: the script tag is inserted; the fetch effect returns at once
\* because currentEmotion is null.
MusicMount ==
    /\ ~musicMounted
    /\ musicMounted' = TRUE
    /\ lastEvent' = "other"
    /\ UNCHANGED <<isPlaying, currentTrack, tracks, playerIsLoading, progress, playerRef,
                   progressInterval, progTimers, pendingFetches, pendingLoads,
                   emotionChanges>>
    /\ UNCHANGED <<monitorVars, hookVars, pureVars, chatVars>>

\* Home passes a new emotion down: the fetch effect runs fetchTracks up to
\* its await.  The call keeps the isPlaying, currentTrack and tracks of this
\* render.
MusicEmotionDetected ==
    /\ musicMounted
    /\ emotionChanges < MaxEmotionChanges
    /\ \E e \in MusicEmotions \ {currentEmotion} :
         /\ currentEmotion' = e
         /\ pendingFetches' = pendingFetches \cup
               {[emotion |-> e, isPlaying |-> isPlaying,
                 closure |-> Closure(currentTrack, tracks)]}
    /\ published' = TRUE
    /\ playerIsLoading' = TRUE
    /\ emotionChanges' = emotionChanges + 1
    /\ lastEvent' = "other"
    /\ UNCHANGED <<musicMounted, isPlaying, currentTrack, tracks, progress, playerRef,
                   progressInterval, progTimers, pendingLoads>>
    /\ UNCHANGED OtherThanMusic
    /\ UNCHANGED <<hookVars, pureVars, chatVars>>

\* searchYouTubeVideos returns to a suspended fetchTracks: setTracks, then
\* loadAndPlayTrack of the first track when the call's isPlaying is true,
\* then setIsLoading(false).
FetchCompletes ==
    /\ \E f \in pendingFetches, remote \in MusicRemotes :
         LET genre == getRecommendedGenre(f.emotion).value
             fetchedTracks == searchYouTubeVideos(genre, remote).tracks
         IN  /\ tracks' = fetchedTracks
             /\ pendingFetches' = pendingFetches \ {f}
             /\ IF Len(fetchedTracks) > 0 /\ f.isPlaying
                THEN SetPlayer(loadAndPlayTrack(PlayerState, fetchedTracks[1], f.closure))
                ELSE SetPlayer(PlayerState)
    /\ playerIsLoading' = FALSE
    /\ lastEvent' = "other"
    /\ UNCHANGED <<musicMounted, emotionChanges>>
    /\ UNCHANGED <<monitorVars, hookVars, pureVars, chatVars>>

\* loadYouTubePlayer resolves for a suspended loadAndPlayTrack.
PlayerLoaded ==
    /\ \E l \in pendingLoads :
         SetPlayer(LoadTail([PlayerState EXCEPT !.playerRef = "player",
                                                !.pendingLoads = @ \ {l}],
                            l.track, l.closure))
    /\ lastEvent' = "other"
    /\ UNCHANGED <<musicMounted, tracks, playerIsLoading, pendingFetches, emotionChanges>>
    /\ UNCHANGED <<monitorVars, hookVars, pureVars, chatVars>>

\* Click on the play / pause button (disabled={tracks.length === 0}; the
\* controls are not rendered while isLoading).
handlePlayPause ==
    /\ musicMounted
    /\ ~playerIsLoading
    /\ Len(tracks) > 0
    /\ LET st == PlayerState
           c == Closure(currentTrack, tracks)
       IN  IF currentTrack.id = "null"
           THEN /\ SetPlayer(loadAndPlayTrack(st, tracks[1], c))
                /\ lastEvent' = "other"
           ELSE IF isPlaying
           THEN /\ SetPlayer([st EXCEPT !.timers = ClearProgress(st), !.isPlaying = FALSE])
                /\ lastEvent' = "other"
           ELSE /\ SetPlayer(StartProgress([st EXCEPT !.isPlaying = TRUE], st.timers, c))
                /\ lastEvent' = "other"
    /\ UNCHANGED <<musicMounted, tracks, playerIsLoading, pendingFetches, emotionChanges>>
    /\ UNCHANGED <<monitorVars, hookVars, pureVars, chatVars>>

\* Click on the skip button (disabled={tracks.length <= 1}).
ClickNext ==
    /\ musicMounted
    /\ ~playerIsLoading
    /\ Len(tracks) > 1
    /\ SetPlayer(handleNext(PlayerState, Closure(currentTrack, tracks)))
    /\ lastEvent' = "other"
    /\ UNCHANGED <<musicMounted, tracks, playerIsLoading, pendingFetches, emotionChanges>>
    /\ UNCHANGED <<monitorVars, hookVars, pureVars, chatVars>>

\* Click on one of the first three tracks of the list:
\*   onClick={() => loadAndPlayTrack(track)}
ClickTrack ==
    /\ musicMounted
    /\ ~playerIsLoading
    /\ \E i \in DOMAIN tracks :
         /\ i <= 3
         /\ SetPlayer(loadAndPlayTrack(PlayerState, tracks[i], Closure(currentTrack, tracks)))
    /\ lastEvent' = "other"
    /\ UNCHANGED <<musicMounted, tracks, playerIsLoading, pendingFetches, emotionChanges>>
    /\ UNCHANGED <<monitorVars, hookVars, pureVars, chatVars>>

\* One firing of a progress interval:
\*   setProgress(prev => { if (prev >= 100) { handleNext(); return 0; }
\*                         return prev + 0.5; })
\* with the handleNext of the render that created the interval.  Every
\* suspended loadAndPlayTrack was called before the first interval existed
\* and resumes 500 ms after its call, so it resumes before an interval
\* (1000 ms) fires.
ProgressTick ==
    /\ pendingLoads = {}
    /\ \E t \in progTimers :
         IF progress >= ProgressFull
         THEN /\ SetPlayer([handleNext(PlayerState, t.closure) EXCEPT !.progress = 0])
              /\ lastEvent' = "advance"
         ELSE /\ SetPlayer([PlayerState EXCEPT !.progress = @ + 1])
              /\ lastEvent' = "other"
    /\ UNCHANGED <<musicMounted, tracks, playerIsLoading, pendingFetches, emotionChanges>>
    /\ UNCHANGED <<monitorVars, hookVars, pureVars, chatVars>>

MusicNext ==
    \/ MusicMount
    \/ MusicEmotionDetected
    \/ FetchCompletes
    \/ PlayerLoaded
    \/ handlePlayPause
    \/ ClickNext
    \/ ClickTrack
    \/ ProgressTick

\* ------------------------------------------------------------------------
\* ChatInterface
\* ------------------------------------------------------------------------

WelcomeText ==
    "Hello! How are you feeling today? I'll adapt my responses based on your emotional state."

NoResponseText == "I'm sorry, I couldn't generate a response."

\* mockResponses
mockResponses(key) ==
    CASE key = "happy" ->
           <<"That's fantastic! I'm so happy to hear that. What else is making you smile today?",
             "Wonderful news! Your positive energy is contagious. Tell me more!",
             "I'm thrilled things are going well for you! Let's keep that positive momentum going!">>
      [] key = "sad" ->
           <<"I understand that feeling. It's okay to feel down sometimes. Would you like to talk about what's troubling you?",
             "I'm here for you during this difficult time. Remember that these feelings won't last forever.",
             "It sounds like you're going through a tough moment. Would sharing more about it help lighten the burden?">>
      [] key = "angry" ->
           <<"I understand you're feeling frustrated. Let's take a step back and look at this calmly.",
             "It makes sense that you'd feel that way. Once we process these feelings, we can think about constructive next steps.",
             "Your feelings are valid. Would it help to talk through what triggered this reaction?">>
      [] key = "calm" ->
           <<"It sounds like you're in a peaceful state of mind. That's a wonderful place to be for reflection.",
             "This tranquil energy is perfect for mindful conversation. What's on your mind today?",
             "I appreciate your centered approach. How can we maintain this balanced perspective?">>
      [] key = "fear" ->
           <<"It's natural to feel anxious about this. Remember that you've overcome difficult situations before.",
             "I understand your concerns. Let's break this down into smaller, manageable parts.",
             "Your feelings of worry are completely valid. Would it help to discuss specific strategies for this situation?">>
      [] key = "surprise" ->
           <<"Wow, that's unexpected! I'd love to hear more about this development.",
             "That's quite the surprise! How are you processing this new information?",
             "I can understand why that would catch you off guard! What aspect of this surprises you most?">>
      [] key = "neutral" ->
           <<"Thanks for sharing that with me. Would you like to explore this topic further?",
             "I appreciate your perspective. What other thoughts do you have on this matter?",
             "That's an interesting point. Could you elaborate on what you mean?">>

\* The list getMockResponse draws from:
\*   mockResponses[emotion || 'neutral'] || mockResponses['neutral']
MockList(emotion) ==
    IF FeelingOf(emotion) \in EmotionSet
    THEN mockResponses(FeelingOf(emotion))
    ELSE mockResponses("neutral")

Range(seq) == {seq[i] : i \in DOMAIN seq}

\* getMockResponse(emotion): every value Math.floor(Math.random() * length)
\* can select.
getMockResponse(emotion) == Range(MockList(emotion))

\* Texts the user types: blank ones and two messages.
ChatInputs == {"", " ", "hi", "so tired"}

\* input.trim()
Trim(text) == IF text = " " THEN "" ELSE text

\* Values of the environment variable: unset, the placeholder, a key.
ApiKeys == {"", "your_openrouter_key_here", "sk-or-key"}

\* Emotions Home passes down while the chat is used.
ChatEmotions == {"null", "happy", "sad"}

\* Text a well-formed completion carries.
ModelText == "Glad to help."

\* What the chat-completion call can come back with.
ChatOutcomes ==
    {"networkError", "status500", "content", "emptyContent", "emptyChoices",
     "noChoices"}

\* axios.post rejects, or reading response.data.choices[0] throws.
ReachesCatch(outcome) ==
    outcome \in {"networkError", "status500", "noChoices"}

\* response.data.choices[0]?.message?.content || NoResponseText
ExtractReply(outcome) ==
    IF outcome = "content" THEN ModelText ELSE NoResponseText

Role(msg) == IF msg.sender = "user" THEN "user" ELSE "assistant"

\* The injected system message: the feeling and the tone of the template.
SystemMessage(emotion) ==
    [role |-> "system", feeling |-> FeelingOf(emotion), tone |-> ChatTone(emotion)]

\* A request whose conversation part is built from the transcript that
\* already holds the new message.
BuildRequest_FromUpdatedTranscript(transcript, text, emotion) ==
    <<SystemMessage(emotion)>>
    \o [i \in 1..(Len(transcript) + 1) |->
           IF i <= Len(transcript)
           THEN [role |-> Role(transcript[i]), content |-> transcript[i].content]
           ELSE [role |-> "user", content |-> text]]
    \o <<[role |-> "user", content |-> text]>>

\* The messages array of the request body: the system message, the
\* transcript of the render the handler belongs to, the text typed.
BuildRequest(transcript, text, emotion) ==
    <<SystemMessage(emotion)>>
    \o [i \in 1..Len(transcript) |->
           [role |-> Role(transcript[i]), content |-> transcript[i].content]]
    \o <<[role |-> "user", content |-> text]>>

NoRequest == [sent |-> FALSE]

NoReply == [shown |-> FALSE]

ChatInit ==
    /\ chatMounted = FALSE
    /\ messages = <<>>
    /\ input = ""
    /\ isLoading = FALSE
    /\ apiKey \in ApiKeys
    /\ pending = {}
    /\ sends = 0
    /\ lastRequest = NoRequest
    /\ lastReply = NoReply

\* useEffect(() => setMessages([welcomeMessage]), [])
ChatMount ==
    /\ ~chatMounted
    /\ chatMounted' = TRUE
    /\ messages' = <<[sender |-> "ai", content |-> WelcomeText]>>
    /\ UNCHANGED <<input, isLoading, apiKey, pending, sends, lastRequest, lastReply>>
    /\ UNCHANGED <<monitorVars, hookVars, pureVars, musicVars>>

\* onChange={(e) => setInput(e.target.value)}
TypeInput ==
    /\ chatMounted
    /\ \E text \in ChatInputs \ {input} : input' = text
    /\ UNCHANGED <<chatMounted, messages, isLoading, apiKey, pending, sends,
                   lastRequest, lastReply>>
    /\ UNCHANGED <<monitorVars, hookVars, pureVars, musicVars>>

\* Home re-renders ChatInterface with the label EmotionMonitor passed up.
EmotionDetected ==
    /\ chatMounted
    /\ \E e \in (ChatEmotions \ {"null"}) \ {currentEmotion} : currentEmotion' = e
    /\ published' = TRUE
    /\ UNCHANGED <<mounted, isConnected, emotionClassifier, dataBuffer, eegData,
                   acqTimers, clsTimers, unicornCleanup, classifierCleanup,
                   homeEegData, monError, appended, cycle>>
    /\ UNCHANGED <<hookVars, pureVars, chatVars, musicVars>>

\* handleSendMessage up to its await: the guard, the three state updates,
\* and either the request or the mock reply followed by the delay.
handleSendMessage ==
    /\ chatMounted
    /\ sends < MaxSends
    /\ Trim(input) # ""
    /\ messages' = Append(messages, [sender |-> "user", content |-> input])
    /\ input' = ""
    /\ isLoading' = TRUE
    /\ sends' = sends + 1
    /\ IF apiKey # "" /\ apiKey # "your_openrouter_key_here"
       THEN /\ lastRequest' = [sent |-> TRUE,
                               body |-> BuildRequest(messages, input, currentEmotion),
                               at |-> Len(messages) + 1,
                               emotion |-> currentEmotion]
            /\ pending' = pending \cup
                   {[id |-> sends + 1, path |-> "api", emotion |-> currentEmotion,
                     content |-> ""]}
       ELSE /\ \E reply \in getMockResponse(currentEmotion) :
                 pending' = pending \cup
                   {[id |-> sends + 1, path |-> "mock", emotion |-> currentEmotion,
                     content |-> reply]}
            /\ UNCHANGED lastRequest
    /\ UNCHANGED <<chatMounted, apiKey, lastReply>>
    /\ UNCHANGED <<monitorVars, hookVars, pureVars, musicVars>>

\* Click on Send (disabled={isLoading || !input.trim()}).
ClickSend ==
    /\ ~isLoading
    /\ handleSendMessage

\* Enter without Shift in the text field (handleKeyDown).
PressEnter == handleSendMessage

\* A handleSendMessage whose catch block only logs the error.
ApiReturns_SilentCatch ==
    /\ \E p \in pending :
         /\ p.path = "api"
         /\ \E outcome \in ChatOutcomes :
              \E shown \in (IF ReachesCatch(outcome)
                            THEN getMockResponse(p.emotion)
                            ELSE {ExtractReply(outcome)}) :
                 /\ messages' = IF ReachesCatch(outcome)
                                THEN messages
                                ELSE Append(messages, [sender |-> "ai", content |-> shown])
                 /\ lastReply' = [shown |-> TRUE, path |-> "api", outcome |-> outcome,
                                  now |-> currentEmotion, content |-> shown]
         /\ pending' = pending \ {p}
    /\ isLoading' = FALSE
    /\ UNCHANGED <<chatMounted, input, apiKey, sends, lastRequest>>
    /\ UNCHANGED <<monitorVars, hookVars, pureVars, musicVars>>

\* The rest of handleSendMessage for the API path: the reply extracted from
\* the response, or the catch block's mock reply, then finally.
ApiReturns ==
    /\ \E p \in pending :
         /\ p.path = "api"
         /\ \E outcome \in ChatOutcomes :
              \E shown \in (IF ReachesCatch(outcome)
                            THEN getMockResponse(p.emotion)
                            ELSE {ExtractReply(outcome)}) :
                 /\ messages' = Append(messages, [sender |-> "ai", content |-> shown])
                 /\ lastReply' = [shown |-> TRUE, path |-> "api", outcome |-> outcome,
                                  now |-> currentEmotion, content |-> shown]
         /\ pending' = pending \ {p}
    /\ isLoading' = FALSE
    /\ UNCHANGED <<chatMounted, input, apiKey, sends, lastRequest>>
    /\ UNCHANGED <<monitorVars, hookVars, pureVars, musicVars>>

\* The rest of handleSendMessage for the mock path, after the 500 ms delay.
MockDelayElapsed ==
    /\ \E p \in pending :
         /\ p.path = "mock"
         /\ messages' = Append(messages, [sender |-> "ai", content |-> p.content])
         /\ lastReply' = [shown |-> TRUE, path |-> "mock", outcome |-> "mock",
                          now |-> currentEmotion, content |-> p.content]
         /\ pending' = pending \ {p}
    /\ isLoading' = FALSE
    /\ UNCHANGED <<chatMounted, input, apiKey, sends, lastRequest>>
    /\ UNCHANGED <<monitorVars, hookVars, pureVars, musicVars>>

ChatNext ==
    \/ ChatMount
    \/ TypeInput
    \/ EmotionDetected
    \/ ClickSend
    \/ PressEnter
    \/ ApiReturns
    \/ MockDelayElapsed

\* ------------------------------------------------------------------------
\* Direct calls of extractFeatures, normalizeFeatures and the selections
\* ------------------------------------------------------------------------

ExtractCalls == {[fn |-> "extractFeatures", eegData |-> w] : w \in Windows}

NormalizeCalls ==
    {[fn |-> "normalizeFeatures", features |-> f, min |-> lo, max |-> hi] :
        f \in FeatureVectors, lo \in BoundVals, hi \in BoundVals}

SelectCalls == {[fn |-> "select", result |-> r] : r \in ScoreVectors}

\* Queries passed to searchYouTubeVideos and to the handler.
TrackQueries ==
    {GenreKeys[i] : i \in 1..Len(GenreKeys)}
    \cup {QueryUpperUpbeat, QueryNonsense, QueryMusic, QueryLofi, QueryLongCalming,
          QueryEmpty}

\* A tracks list of n entries sent by a server other than the handler.
ForeignTracks(n) == [i \in 1..n |-> Track("remote", "Remote Track")]

RemoteOutcomes ==
    {RemoteHandler, RemoteNetworkError, RemoteStatus(404), RemoteStatus(500),
     RemotePayload(FALSE, FALSE, <<>>), RemotePayload(TRUE, FALSE, <<>>)}
    \cup {RemotePayload(TRUE, TRUE, ForeignTracks(n)) : n \in 0..MaxPayloadTracks}

SearchCalls ==
    {[fn |-> "searchYouTubeVideos", genre |-> q, remote |-> r] :
        q \in TrackQueries, r \in RemoteOutcomes}

HandlerCalls ==
    {[fn |-> "handler", method |-> m, hasQuery |-> h, query |-> q] :
        m \in {"GET", "POST"}, h \in BOOLEAN, q \in TrackQueries}

\* Emotion arguments: the labels, null, the empty string, a string that is
\* no label, and two strings that name members of Object.prototype.
EmotionArgs == EmotionSet \cup {"null", "", "bored", "constructor", "toString"}

GenreCalls == {[fn |-> "genre", emotion |-> e] : e \in EmotionArgs}

ToneCalls == {[fn |-> "tone", emotion |-> e] : e \in EmotionArgs}

GenerateCalls == {[fn |-> "generateSimulatedEegData", draws |-> d] : d \in DrawVectors}

PatternCalls ==
    {[fn |-> "generateEmotionPattern", emotion |-> e, draws |-> d] :
        e \in EmotionArgs, d \in DrawVectors}

RecommendCalls ==
    {[fn |-> "getMusicRecommendation", emotion |-> e, hasKey |-> k, outcome |-> o] :
        e \in EmotionSet \cup {"null", "bored"}, k \in BOOLEAN, o \in LlmOutcomes}

\* The emotions Home can hold: a label or null.
PathCalls == {[fn |-> "searchBothPaths", emotion |-> e] : e \in EmotionSet \cup {"null"}}

PureIdle ==
    /\ call = [fn |-> "none"]
    /\ ret = <<>>
    /\ done = FALSE

PureInit ==
    /\ call \in ExtractCalls \cup NormalizeCalls \cup SelectCalls
                \cup SearchCalls \cup HandlerCalls \cup GenreCalls \cup ToneCalls
                \cup GenerateCalls \cup PatternCalls \cup RecommendCalls \cup PathCalls
    /\ ret = <<>>
    /\ done = FALSE

CallExtractFeatures ==
    /\ ~done
    /\ call.fn = "extractFeatures"
    /\ ret' = extractFeatures(call.eegData)
    /\ done' = TRUE
    /\ UNCHANGED call
    /\ UNCHANGED <<monitorVars, hookVars, chatVars, musicVars>>

CallNormalizeFeatures ==
    /\ ~done
    /\ call.fn = "normalizeFeatures"
    /\ ret' = normalizeFeatures(call.features, call.min, call.max)
    /\ done' = TRUE
    /\ UNCHANGED call
    /\ UNCHANGED <<monitorVars, hookVars, chatVars, musicVars>>

CallSelect ==
    /\ ~done
    /\ call.fn = "select"
    /\ ret' = [hook |-> SelectLabel(call.result), monitor |-> DetectEmotion(call.result)]
    /\ done' = TRUE
    /\ UNCHANGED call
    /\ UNCHANGED <<monitorVars, hookVars, chatVars, musicVars>>

CallSearchYouTubeVideos ==
    /\ ~done
    /\ call.fn = "searchYouTubeVideos"
    /\ ret' = searchYouTubeVideos(call.genre, call.remote)
    /\ done' = TRUE
    /\ UNCHANGED call
    /\ UNCHANGED <<monitorVars, hookVars, chatVars, musicVars>>

CallHandler ==
    /\ ~done
    /\ call.fn = "handler"
    /\ ret' = handler(call.method, call.hasQuery, call.query)
    /\ done' = TRUE
    /\ UNCHANGED call
    /\ UNCHANGED <<monitorVars, hookVars, chatVars, musicVars>>

\* getRecommendedGenre(emotion) and llmService.emotionToGenre(emotion).
CallGenre ==
    /\ ~done
    /\ call.fn = "genre"
    /\ ret' = [recommended |-> getRecommendedGenre(call.emotion),
               fallback |-> emotionToGenre(call.emotion)]
    /\ done' = TRUE
    /\ UNCHANGED call
    /\ UNCHANGED <<monitorVars, hookVars, chatVars, musicVars>>

\* The tone each of the two request builders inserts.
CallTone ==
    /\ ~done
    /\ call.fn = "tone"
    /\ ret' = [llm |-> LlmTone(call.emotion), chat |-> ChatTone(call.emotion)]
    /\ done' = TRUE
    /\ UNCHANGED call
    /\ UNCHANGED <<monitorVars, hookVars, chatVars, musicVars>>

CallGenerateSimulatedEegData ==
    /\ ~done
    /\ call.fn = "generateSimulatedEegData"
    /\ ret' = generateSimulatedEegData(call.draws)
    /\ done' = TRUE
    /\ UNCHANGED call
    /\ UNCHANGED <<monitorVars, hookVars, chatVars, musicVars>>

CallGenerateEmotionPattern ==
    /\ ~done
    /\ call.fn = "generateEmotionPattern"
    /\ ret' = generateEmotionPattern(call.emotion, call.draws)
    /\ done' = TRUE
    /\ UNCHANGED call
    /\ UNCHANGED <<monitorVars, hookVars, chatVars, musicVars>>

CallGetMusicRecommendation ==
    /\ ~done
    /\ call.fn = "getMusicRecommendation"
    /\ ret' = getMusicRecommendation(call.emotion, call.hasKey, call.outcome)
    /\ done' = TRUE
    /\ UNCHANGED call
    /\ UNCHANGED <<monitorVars, hookVars, chatVars, musicVars>>

\* searchYouTubeVideos(getRecommendedGenre(emotion)) answered by the handler,
\* and the same call failing on the network.
CallSearchBothPaths ==
    /\ ~done
    /\ call.fn = "searchBothPaths"
    /\ LET genre == getRecommendedGenre(call.emotion).value IN
       ret' = [genre |-> genre,
               remote |-> searchYouTubeVideos(genre, RemoteHandler).tracks,
               fallback |-> searchYouTubeVideos(genre, RemoteNetworkError).tracks]
    /\ done' = TRUE
    /\ UNCHANGED call
    /\ UNCHANGED <<monitorVars, hookVars, chatVars, musicVars>>

PureNext ==
    \/ CallExtractFeatures
    \/ CallNormalizeFeatures
    \/ CallSelect
    \/ CallSearchYouTubeVideos
    \/ CallHandler
    \/ CallGenre
    \/ CallTone
    \/ CallGenerateSimulatedEegData
    \/ CallGenerateEmotionPattern
    \/ CallGetMusicRecommendation
    \/ CallSearchBothPaths

\* ------------------------------------------------------------------------
\* Specifications
\* ------------------------------------------------------------------------

\* The EmotionMonitor component inside Home.
ChatIdle ==
    /\ chatMounted = FALSE
    /\ messages = <<>>
    /\ input = ""
    /\ isLoading = FALSE
    /\ apiKey = ""
    /\ pending = {}
    /\ sends = 0
    /\ lastRequest = NoRequest
    /\ lastReply = NoReply

Init == MonitorInit /\ HookInit /\ PureIdle /\ ChatIdle /\ MusicInit

Next == MonitorNext

Spec == Init /\ [][Next]_vars

\* The useEmotionClassifier hook.
InitHook == MonitorInit /\ HookInit /\ PureIdle /\ ChatIdle /\ MusicInit

SpecHook == InitHook /\ [][HookNext]_vars

\* Direct calls of the pure functions.
InitPure == MonitorInit /\ HookInit /\ PureInit /\ ChatIdle /\ MusicInit

SpecPure == InitPure /\ [][PureNext]_vars

\* The chat panel on its own, with Home handing down the detected emotion.
InitChat == MonitorInit /\ HookInit /\ PureIdle /\ ChatInit /\ MusicInit

SpecChat == InitChat /\ [][ChatNext]_vars

\* The music player on its own, with Home handing down the detected emotion.
InitMusic == MonitorInit /\ HookInit /\ PureIdle /\ ChatIdle /\ MusicInit

SpecMusic == InitMusic /\ [][MusicNext]_vars

\* Sessions in which the user types one text or a blank and one emotion is
\* detected.
LiveSession == input \in {"", " ", "hi"} /\ currentEmotion \in {"null", "happy"}

\* The chat panel with its pending continuations eventually resumed: the
\* 500 ms timer fires, and the request promise settles.
SpecChatLive ==
    /\ InitChat
    /\ [][ChatNext /\ LiveSession']_vars
    /\ WF_vars(ApiReturns)
    /\ WF_vars(MockDelayElapsed)

\* ------------------------------------------------------------------------
\* Properties
\* ------------------------------------------------------------------------

Min(a, b) == IF a <= b THEN a ELSE b

\* C1 (Spec): cancellation.  From a state in which the monitor is
\* disconnected (before the first Connect, or after a Disconnect click has
\* been processed) no step appends a sample to dataBuffer, passes a sample
\* up to Home, or publishes a label: buffer and current label stay frozen
\* until the next Connect.
C1_FrozenWhileDisconnected ==
    [][(~isConnected) =>
          /\ dataBuffer' = dataBuffer
          /\ eegData' = eegData
          /\ homeEegData' = homeEegData
          /\ currentEmotion' = currentEmotion]_vars

\* A Disconnect has been processed after samples were appended and a label
\* was published.
C1_Witness ==
    /\ mounted
    /\ ~isConnected
    /\ Len(dataBuffer) > 0
    /\ currentEmotion # "null"

\* C2 (Spec): dataBuffer holds at most 100 samples, and they are the most
\* recent min(n, 100) of the n samples appended so far, in append order.
C2_BufferIsRecentWindow ==
    /\ Len(dataBuffer) <= BufferCap
    /\ Len(dataBuffer) = Min(appended, BufferCap)
    /\ \A i \in 1..Len(dataBuffer) :
          dataBuffer[i] = appended - Len(dataBuffer) + i

\* The buffer is full and its oldest samples have been evicted.
C2_Witness ==
    /\ appended > BufferCap
    /\ Len(dataBuffer) = BufferCap
    /\ dataBuffer[1] = appended - BufferCap + 1

\* C3 (SpecHook): a classify call made while training has not completed
\* (initClassifier has not resolved, or classifier is null, or isReady is
\* false) returns 'neutral' and does not throw, whatever the window.
C3_NeutralUntilTrained ==
    (/\ lastClassify.made
     /\ \/ lastClassify.pcAtCall # "resolved"
        \/ lastClassify.classifierAtCall = "null"
        \/ ~lastClassify.isReadyAtCall)
    => lastClassify.ret = Returned("neutral")

\* classify was called during training with a non-empty window and scores
\* that select a label other than neutral.
C3_Witness ==
    /\ lastClassify.made
    /\ lastClassify.pcAtCall = "awaiting"
    /\ Len(lastClassify.eegData) > 0
    /\ ~lastClassify.run.throws
    /\ SelectLabel(lastClassify.run.result) # "neutral"

\* C4 (SpecHook): once Ready, classify never throws; when extraction fails
\* (empty window) or the forward run throws, it returns 'neutral'.
C4_ClassifyNeverThrows ==
    (/\ lastClassify.made
     /\ lastClassify.isReadyAtCall
     /\ lastClassify.classifierAtCall # "null")
    => /\ ~lastClassify.ret.threw
       /\ lastClassify.ret.value \in EmotionSet
       /\ (Len(lastClassify.eegData) = 0 \/ lastClassify.run.throws)
             => lastClassify.ret.value = "neutral"

\* classify was called when Ready and its forward run threw on a non-empty
\* window.
C4_Witness ==
    /\ lastClassify.made
    /\ lastClassify.isReadyAtCall
    /\ lastClassify.classifierAtCall # "null"
    /\ Len(lastClassify.eegData) > 0
    /\ lastClassify.run.throws

\* C5 (SpecHook): the hook moves Uninitialized -> Training -> Ready.
\* Training is started at most once and only from Uninitialized; once
\* isReady holds it keeps holding, isTraining stays false and the stored
\* model is not replaced, whatever renders and classify calls follow.
C5_NoRetraining ==
    [][ /\ trainStarts' <= 1
        /\ (isTraining' /\ ~isTraining) => (initPc = "idle" /\ ~isReady)
        /\ isReady => (isReady' /\ ~isTraining' /\ classifier' = classifier) ]_vars

\* Ready has been reached, and a render and a classify call followed it.
C5_Witness ==
    /\ isReady
    /\ trainStarts = 1
    /\ renders > 0
    /\ lastClassify.made
    /\ lastClassify.isReadyAtCall

\* The highest score of a score vector, and the first label of the
\* enumeration that has it.
MaxScore(result) ==
    CHOOSE m \in {result[e] : e \in EmotionSet} : \A e \in EmotionSet : result[e] <= m

FirstWithMax(result) ==
    EMOTIONS[CHOOSE i \in 1..Len(EMOTIONS) :
                /\ result[EMOTIONS[i]] = MaxScore(result)
                /\ \A j \in 1..(i - 1) : result[EMOTIONS[j]] < MaxScore(result)]

\* C6 as stated (SpecPure): for every score vector both selections return
\* the label with the highest score, the first-listed one on a tie.
C6_FirstHighestAlways ==
    (done /\ call.fn = "select")
    => /\ ret.hook = FirstWithMax(call.result)
       /\ ret.monitor = FirstWithMax(call.result)

\* C6 amended (SpecPure): when some score is greater than 0, both
\* selections return the label with the highest score, the first-listed one
\* on a tie; when no score is greater than 0 they return 'neutral'.
C6_FirstHighestWhenPositive ==
    (done /\ call.fn = "select")
    => LET expected == IF MaxScore(call.result) > 0
                       THEN FirstWithMax(call.result)
                       ELSE "neutral"
       IN  ret.hook = expected /\ ret.monitor = expected

\* A selection over a vector whose positive highest score is shared by two
\* labels, neither of them the first of the enumeration.
C6_Witness ==
    /\ done
    /\ call.fn = "select"
    /\ MaxScore(call.result) > 0
    /\ call.result["happy"] < MaxScore(call.result)
    /\ Cardinality({e \in EmotionSet : call.result[e] = MaxScore(call.result)}) >= 2
    /\ ret.hook = FirstWithMax(call.result)

\* The sum of one channel over a window.
RECURSIVE SumChannel(_, _)
SumChannel(samples, ch) ==
    IF Len(samples) = 0 THEN 0
    ELSE samples[1][ch] + SumChannel(Tail(samples), ch)

\* C7 (SpecPure): on a non-empty window extractFeatures returns exactly the
\* keys eeg1..eeg8 (no timestamp), each the arithmetic mean of its channel.
C7_FeaturesAreMeans ==
    (done /\ call.fn = "extractFeatures" /\ Len(call.eegData) > 0)
    => /\ ~ret.threw
       /\ DOMAIN ret.value = Channels
       /\ \A ch \in Channels :
             /\ IsFinite(ret.value[ch])
             /\ ret.value[ch].n * Len(call.eegData)
                   = SumChannel(call.eegData, ch) * ret.value[ch].d

\* extractFeatures has returned for a window of two or more samples that
\* differ, with a mean that is not an integer.
C7_Witness ==
    /\ done
    /\ call.fn = "extractFeatures"
    /\ Len(call.eegData) >= 2
    /\ call.eegData[1] # call.eegData[2]
    /\ ~ret.threw
    /\ \E ch \in Channels : ret.value[ch].d > 1

\* C8 (SpecPure): on an empty window extractFeatures raises an error and
\* returns no feature vector.
C8_EmptyWindowThrows ==
    (done /\ call.fn = "extractFeatures" /\ Len(call.eegData) = 0)
    => /\ ret.threw
       /\ ret.message = "No EEG data provided for feature extraction"
       /\ ret.value = <<>>

\* extractFeatures has been called with the empty window.
C8_Witness ==
    /\ done
    /\ call.fn = "extractFeatures"
    /\ call.eegData = <<>>
    /\ ret.threw

\* C9 (SpecPure): with max > min every normalized value lies in [0, 1]; a
\* value >= max maps to 1, a value <= min maps to 0, and a value in between
\* maps to (v - min) / (max - min).
C9_NormalizedRange ==
    (done /\ call.fn = "normalizeFeatures" /\ call.max > call.min)
    => /\ ~ret.threw
       /\ DOMAIN ret.value = DOMAIN call.features
       /\ \A key \in DOMAIN call.features :
             LET v == call.features[key]
                 out == ret.value[key]
             IN  /\ IsFinite(out)
                 /\ 0 <= out.n /\ out.n <= out.d
                 /\ (v.n >= call.max * v.d) => (out.n = 1 /\ out.d = 1)
                 /\ (v.n <= call.min * v.d) => (out.n = 0)
                 /\ (call.min * v.d < v.n /\ v.n < call.max * v.d)
                       => out.n * (v.d * (call.max - call.min))
                             = (v.n - call.min * v.d) * out.d

\* normalizeFeatures has returned for valid bounds and a vector with a
\* value at or above max, one at or below min and one strictly in between.
C9_Witness ==
    /\ done
    /\ call.fn = "normalizeFeatures"
    /\ call.max > call.min
    /\ \E key \in DOMAIN call.features :
          call.features[key].n >= call.max * call.features[key].d
    /\ \E key \in DOMAIN call.features :
          call.features[key].n <= call.min * call.features[key].d
    /\ \E key \in DOMAIN call.features :
          /\ call.min * call.features[key].d < call.features[key].n
          /\ call.features[key].n < call.max * call.features[key].d
          /\ ret.value[key].d > 1

\* C10 as stated (SpecPure): normalizeFeatures called with max <= min fails
\* and returns no normalized vector.
C10_BadBoundsThrow ==
    (done /\ call.fn = "normalizeFeatures" /\ call.max <= call.min)
    => (ret.threw /\ ret.value = <<>>)

\* The keys of the fallback table that the lower-cased query contains or
\* that contain it.
MatchingKeys(genre) ==
    {i \in 1..Len(GenreKeys) :
        \/ Includes(toLowerCase(genre), GenreKeys[i])
        \/ Includes(GenreKeys[i], toLowerCase(genre))}

\* The remote call of a searchYouTubeVideos call failed in transit: network
\* error or a status outside 2xx.
TransportFailed(remote) == remote.kind \in {"networkError", "status"}

\* C11 (SpecPure): when the remote call fails, searchYouTubeVideos returns
\* the fallback list of a key that the lower-cased query contains or that
\* contains it, and the 'lofi study beats' list when there is none;
\* 'upbeat happy music' (in any letter case) yields the 3-item list starting
\* with dQw4w9WgXcQ and 'xyz nonsense' the lofi list.
C11_FallbackMatching ==
    (done /\ call.fn = "searchYouTubeVideos" /\ TransportFailed(call.remote))
    => /\ MatchingKeys(call.genre) # {}
             => \E i \in MatchingKeys(call.genre) : ret.tracks = fallbackTracks[i]
       /\ MatchingKeys(call.genre) = {} => ret.tracks = fallbackTracks[LofiIndex]
       /\ call.genre \in {KeyUpbeat, QueryUpperUpbeat}
             => (Len(ret.tracks) = 3 /\ ret.tracks[1].id = "dQw4w9WgXcQ")
       /\ call.genre = QueryNonsense
             => (Len(ret.tracks) = 3 /\ ret.tracks[2].title = "Lofi Cafe")

\* The fallback answered a query written in another letter case.
C11_Witness ==
    /\ done
    /\ call.fn = "searchYouTubeVideos"
    /\ call.remote.kind = "networkError"
    /\ call.genre = QueryUpperUpbeat
    /\ ret.tracks[1].id = "dQw4w9WgXcQ"

\* C12 as stated (SpecPure): for every remote failure (network error,
\* non-2xx status, malformed payload: no data or no tracks list)
\* searchYouTubeVideos returns a list of the fallback table, never an empty
\* list and never an error.
C12_EveryFailureFallsBack ==
    (/\ done
     /\ call.fn = "searchYouTubeVideos"
     /\ \/ TransportFailed(call.remote)
        \/ (call.remote.kind = "payload"
              /\ (~call.remote.hasData \/ ~call.remote.hasTracks)))
    => /\ ~ret.threw
       /\ Len(ret.tracks) > 0
       /\ \E i \in 1..Len(GenreKeys) : ret.tracks = fallbackTracks[i]

\* C13 as stated (SpecPure): the client search sends no request for an
\* empty query, and the handler answers a missing or empty query with
\* status 400 and an empty track list.
C13_EmptyQueryRejected ==
    /\ (done /\ call.fn = "searchYouTubeVideos" /\ Len(call.genre) = 0)
          => ~ret.sent
    /\ (done /\ call.fn = "handler" /\ call.method = "GET"
          /\ (~call.hasQuery \/ Len(call.query) = 0))
          => (ret.status = 400 /\ ret.tracks = <<>>)

\* C14 as stated (SpecPure): whatever the query and the remote outcome,
\* searchYouTubeVideos returns at most 5 tracks.
C14_AtMostFiveTracks ==
    (done /\ call.fn = "searchYouTubeVideos") => Len(ret.tracks) <= 5

\* C15 as stated (SpecPure): getRecommendedGenre and emotionToGenre return
\* a non-empty string for every label and for null, and 'lofi study beats'
\* for null and for every string that is no label.
C15_GenreTotal ==
    (done /\ call.fn = "genre")
    => \A r \in {ret.recommended, ret.fallback} :
          /\ r.kind = "string"
          /\ Len(r.value) > 0
          /\ call.emotion \notin EmotionSet => r.value = KeyLofi

\* C16 as stated (SpecPure): the tone either request builder inserts is a
\* non-empty string for every label, for null and for every string that is
\* no label, and 'neutral and helpful' for null and for the latter.
C16_ToneTotal ==
    (done /\ call.fn = "tone")
    => \A r \in {ret.llm, ret.chat} :
          /\ r.kind = "string"
          /\ r.value # ""
          /\ call.emotion \notin EmotionSet => r.value = "neutral and helpful"

\* The reply shown is one of the canned replies of the list keyed by the
\* emotion current when it is shown.
CannedFor(reply) == reply.content \in getMockResponse(reply.now)

\* C17 as stated (SpecChat): after every transport failure and every
\* malformed response of the chat-completion call, the reply shown is a
\* canned reply of the list keyed by the emotion.
C17_FailureShowsCannedReply ==
    (lastReply.shown /\ lastReply.path = "api" /\ lastReply.outcome # "content")
    => CannedFor(lastReply)

\* C18 (SpecChat): the request body starts with the one system message, which
\* names the emotion (or 'neutral') and its tone; the messages after it are
\* the transcript up to and including the message just sent, in order and
\* with their roles, so that the new text is the last message and occurs
\* there once.
C18_RequestShape ==
    lastRequest.sent
    => LET body == lastRequest.body
       IN  /\ Len(body) = lastRequest.at + 1
           /\ lastRequest.at <= Len(messages)
           /\ body[1].role = "system"
           /\ body[1].feeling = FeelingOf(lastRequest.emotion)
           /\ body[1].tone = ChatTone(lastRequest.emotion)
           /\ body[1].tone.kind = "string"
           /\ \A i \in 2..Len(body) :
                 /\ body[i].role = Role(messages[i - 1])
                 /\ body[i].content = messages[i - 1].content
           /\ messages[lastRequest.at].sender = "user"

\* A second request is sent while the first is in flight, with an emotion
\* detected and a transcript of two user messages.
C18_Witness ==
    /\ lastRequest.sent
    /\ lastRequest.at = 3
    /\ lastRequest.emotion = "sad"
    /\ Len(lastRequest.body) = 4
    /\ lastRequest.body[3].content # lastRequest.body[4].content
    /\ Cardinality(pending) = 2

\* C19 as stated (Spec): the current emotion is always one of the seven
\* labels, and it is 'neutral' until a classification has been published.
C19_AlwaysALabel ==
    /\ currentEmotion \in EmotionSet
    /\ ~published => currentEmotion = "neutral"

\* C19 amended (Spec): until a classification has been published the current
\* emotion is null (no emotion yet); from then on it is one of the seven
\* labels.
C19_NullThenLabel ==
    /\ ~published => currentEmotion = "null"
    /\ published => currentEmotion \in EmotionSet

\* A label other than neutral has been published.
C19_Witness == published /\ currentEmotion \in EmotionSet \ {"neutral"}

\* C20 (Spec): when a classification cycle has computed its averages, the
\* samples it iterated are the buffer contents at the start of the cycle and
\* the divisor is their number.
C20_SnapshotRead ==
    cycle.pc = "averaged"
    => /\ cycle.samples = cycle.start
       /\ cycle.divisor = Len(cycle.start)

\* A cycle has averaged a full buffer while the acquisition interval is
\* active and further samples are due.
C20_Witness ==
    /\ cycle.pc = "averaged"
    /\ Len(cycle.start) = BufferCap
    /\ acqTimers # {}
    /\ appended > BufferCap

\* C23 (Spec): at most one acquisition interval and at most one
\* classification interval is active; while the monitor is connected exactly
\* one acquisition interval is active, and while it is disconnected no
\* interval of either kind is.
C23_TimersFollowConnection ==
    /\ Cardinality(acqTimers) <= 1
    /\ Cardinality(clsTimers) <= 1
    /\ isConnected => Cardinality(acqTimers) = 1
    /\ ~isConnected => (acqTimers = {} /\ clsTimers = {})

\* The monitor has been disconnected after both intervals had been running.
C23_Witness ==
    /\ mounted
    /\ ~isConnected
    /\ emotionClassifier # "null"
    /\ published
    /\ appended > 1
    /\ acqTimers = {}
    /\ clsTimers = {}

\* C24 as stated (SpecChat): while isLoading is true no handleSendMessage
\* call passes its guard, whether started by the Send button or by Enter.
C24_SingleInFlightSend == [][isLoading => sends' = sends]_vars

\* C29 (SpecHook): isReady is true only with a classifier stored and
\* training ended; after a training failure trainError is set and both
\* isTraining and isReady are false.
C29_ReadyImpliesTrained ==
    /\ isReady => (classifier # "null" /\ ~isTraining)
    /\ initPc = "rejected" => (trainError # "null" /\ ~isTraining /\ ~isReady)

\* Training has failed and classify has been called afterwards.
C29_Witness ==
    /\ initPc = "rejected"
    /\ trainError # "null"
    /\ lastClassify.made
    /\ lastClassify.pcAtCall = "rejected"

\* Number of messages of a sender in a transcript.
CountOf(transcript, sender) ==
    Cardinality({i \in DOMAIN transcript : transcript[i].sender = sender})

\* Replies in a transcript: the AI messages after the welcome message.
Replies(transcript) ==
    IF Len(transcript) = 0 THEN 0 ELSE CountOf(transcript, "ai") - 1

\* One user message per accepted send, one reply per resumed send, and no
\* reply before the user message it answers.
Paired ==
    chatMounted
    => /\ messages[1] = [sender |-> "ai", content |-> WelcomeText]
       /\ CountOf(messages, "user") = sends
       /\ Replies(messages) = sends - Cardinality(pending)
       /\ \A n \in 1..Len(messages) :
             Replies(SubSeq(messages, 1, n)) <= CountOf(SubSeq(messages, 1, n), "user")

\* A step appends at most one message and keeps the earlier ones in place.
AppendOnly ==
    /\ Len(messages) <= Len(messages') /\ Len(messages') <= Len(messages) + 1
    /\ SubSeq(messages', 1, Len(messages)) = messages

\* C30 (SpecChatLive): every accepted send appends one user message and
\* later one AI message, on every path; earlier entries are never removed or
\* reordered; every pending send is resumed and isLoading returns to false.
C30_TranscriptPairing ==
    /\ []Paired
    /\ [][AppendOnly]_vars
    /\ (isLoading ~> ~isLoading)
    /\ ((pending # {}) ~> (pending = {}))

\* A send whose request failed has been answered and nothing is pending.
C30_Witness ==
    /\ lastReply.shown
    /\ lastReply.outcome = "status500"
    /\ Len(messages) = 3
    /\ messages[2].sender = "user"
    /\ messages[3].sender = "ai"
    /\ pending = {}
    /\ ~isLoading

\* lo <= x <= hi
Within(x, lo, hi) == NumLeq(NumInt(lo), x) /\ NumLeq(x, NumInt(hi))

\* C21 (SpecPure): generateSimulatedEegData yields eight channels within
\* [-50, 50]; generateEmotionPattern yields eight channels within 5 of the
\* base of the label and channel, and within 5 of 25 for every string that
\* is not one of the six named labels.
C21_GeneratorRanges ==
    /\ (done /\ call.fn = "generateSimulatedEegData")
       => \A ch \in Channels : Within(ret[ch], -50, 50)
    /\ (done /\ call.fn = "generateEmotionPattern")
       => \A ch \in Channels :
             /\ Within(ret[ch], PatternBase(call.emotion)[ChannelIndex(ch)] - 5,
                                PatternBase(call.emotion)[ChannelIndex(ch)] + 5)
             /\ call.emotion \notin (EmotionSet \ {"neutral"}) => Within(ret[ch], 20, 30)

\* A pattern for a string that is no label, with the lowest draw on eeg1 and
\* the highest on eeg2.
C21_Witness ==
    /\ done
    /\ call.fn = "generateEmotionPattern"
    /\ call.emotion = "bored"
    /\ ret["eeg1"] = NumInt(20)
    /\ call.draws[2] = RandomSteps - 1

\* The request did not produce a completion: no key, a transport error or an
\* error response.
LlmFailed(c) == ~c.hasKey \/ c.outcome.kind \in {"networkError", "errorResponse"}

\* C22 as stated (SpecPure): when the LLM request fails or the key is
\* missing, getMusicRecommendation returns emotionToGenre(emotion).
C22_RecommendationFallsBack ==
    (done /\ call.fn = "getMusicRecommendation" /\ LlmFailed(call))
    => /\ ret.kind = "string"
       /\ ret = emotionToGenre(call.emotion)

\* Ids and titles of a track list, in order.
IdsAndTitles(list) == [i \in DOMAIN list |-> <<list[i].id, list[i].title>>]

\* C28 (SpecPure): for the genre of every label and of null, the list the
\* handler answers with and the fallback list have the same ids and titles
\* in the same order.
C28_PathsAgree ==
    (done /\ call.fn = "searchBothPaths")
    => /\ Len(ret.remote) > 0
       /\ IdsAndTitles(ret.remote) = IdsAndTitles(ret.fallback)

\* Both paths have answered for the genre of 'sad'.
C28_Witness ==
    /\ done
    /\ call.fn = "searchBothPaths"
    /\ call.emotion = "sad"
    /\ ret.genre = KeyMelancholic
    /\ ret.remote[1].id = "rR94NDIfGmA"
    /\ ret.fallback[1].id = "rR94NDIfGmA"

\* C25: once every track search has completed, tracks is the search result
\* for the genre of the latest currentEmotion.
C25_TracksFollowLatestEmotion ==
    (musicMounted /\ currentEmotion # "null" /\ pendingFetches = {})
        => \E remote \in MusicRemotes :
             tracks = searchYouTubeVideos(getRecommendedGenre(currentEmotion).value,
                                          remote).tracks

\* The track after the playing one in tracks: index + 1 modulo the length.
TrackAfterCurrent ==
    tracks[((FindIndex(tracks, currentTrack.id) + 1) % Len(tracks)) + 1]

\* C26: a tick that finds progress at 100 moves playback to the track after
\* the playing one in tracks and restarts progress at 0.
C26_AutoAdvance ==
    [][(lastEvent' = "advance")
          => /\ progress' = 0
             /\ Len(tracks) > 0
             /\ currentTrack' = TrackAfterCurrent]_vars

\* C27: at most one progress interval is active, and none while isPlaying
\* is false.
C27_OneProgressTimer ==
    /\ Cardinality(progTimers) <= 1
    /\ ~isPlaying => progTimers = {}

\* After the last emotion change a reload has replaced the interval: the one
\* active interval was started by a function of a render that held another
\* track list, and it has fired since.
C27_Witness ==
    /\ isPlaying
    /\ Cardinality(progTimers) = 1
    /\ progressInterval # 0
    /\ emotionChanges = MaxEmotionChanges
    /\ pendingFetches = {}
    /\ progress > 0
    /\ \E t \in progTimers : t.closure.currentTrack # NoTrack /\ t.closure.tracks # tracks

====
